---------------------------- MODULE Spec2Model ----------------------------
(***************************************************************************)
(* A model of the EPUB rewriter (src/core/epub_processor.py) and of the    *)
(* script converter (src/core/text_converter.py).                          *)
(*                                                                         *)
(* Text is a sequence of one-character tokens.  The characters stand for   *)
(* the classes the converter tells apart:                                  *)
(*   "<" ">"  the markup delimiters                                        *)
(*   "a"      a character no table touches (ASCII)                         *)
(*   "s"      a Simplified character of the detection set that OpenCC      *)
(*            maps to another character "S"          (as U+56FD -> U+570B) *)
(*   "c"      a character of the detection set that is the same in both    *)
(*            scripts, so OpenCC leaves it alone          (as U+660E)      *)
(*   "u"      a Simplified character outside the detection set that        *)
(*            OpenCC maps to "U"                     (as U+8FD9 -> U+9019) *)
(* and the tag names "html", "/html", "head", "/head", "link", "p", "/p"   *)
(* are one token each: they are ASCII, which OpenCC never changes.         *)
(***************************************************************************)
EXTENDS Integers, Sequences, FiniteSets, TLC

VARIABLES
    book,       \* EpubProcessor.book: [loaded, items, direction]
    stats,      \* EpubProcessor.conversion_stats
    out,        \* the file at the output path
    file,       \* the EPUB at the input path, as epub.read_epub parses it
    phase,      \* history: the last transition of the state machine that returned true
    last,       \* the last call on the processor, its inputs and its return value
    nOps,       \* number of calls made so far
    conv,       \* TextConverter.converter is not None
    text,       \* converter operations: the argument
    res,        \* converter operations: the last call and its result
    env,        \* PYPDF2_AVAILABLE, PDFPLUMBER_AVAILABLE
    pdf,        \* PdfProcessor: [document, file_path]
    pdfOut,     \* the file at the output path of a PDF conversion
    pdfLast,    \* the last call on the PdfProcessor, its inputs and its result
    nPdf,       \* number of PdfProcessor calls made so far
    pages,      \* detect_chapters: the pages_content list it works on
    nDet,       \* number of detect_chapters calls made on pages
    opf,        \* _post_process_opf: the package document it patches
    nPatch,     \* number of patches applied to opf
    mdChapters, \* the chapter list handed to the MarkdownGenerator
    mdOut,      \* the Markdown file it wrote, as a sequence of blocks
    nMd,        \* number of steps made on the way to the Markdown file
    fname,      \* _sanitize_filename: [filename, safe_name]
    gui         \* MainWindow: the widgets' state and the conversion threads

vars == <<book, stats, out, file, phase, last, nOps, conv, text, res,
          env, pdf, pdfOut, pdfLast, nPdf, pages, nDet, opf, nPatch,
          mdChapters, mdOut, nMd, fname, gui>>

epubVars == <<book, stats, out, file, phase, last, nOps>>
convVars == <<text, res>>
pdfVars == <<env, pdf, pdfOut, pdfLast, nPdf>>
detVars == <<pages, nDet>>
opfVars == <<opf, nPatch>>
mdVars == <<mdChapters, mdOut, nMd, fname>>
guiVars == <<gui>>

----------------------------------------------------------------------------
(* Bounds *)

MaxOps == 4        \* calls on one EpubProcessor instance
MaxLen == 5        \* characters of a converter argument
MaxStatLen == 3    \* characters of each argument of get_conversion_stats
MaxOpfText == 2    \* tokens of a package document before its spine
MaxPatch == 2      \* patches applied to one package document
MaxParas == 2      \* paragraphs of the pages given to detect_chapters
MaxDet == 2        \* applications of detect_chapters to the same pages
MaxChapters == 2   \* chapters handed to the MarkdownGenerator
MaxRuns == 2       \* runs of equal characters in a file name to sanitize
MaxPageText == 3   \* tokens of the text of a PDF page
MaxThreads == 2    \* conversions started in one MainWindow

----------------------------------------------------------------------------
(* TextConverter *)

Min(a, b) == IF a < b THEN a ELSE b

RECURSIVE Join(_)
Join(ss) == IF ss = <<>> THEN <<>> ELSE Head(ss) \o Join(Tail(ss))

\* The fixed set of is_simplified_chinese, by class.
simplified_chars == {"s", "c"}

\* opencc.OpenCC('s2t').convert on one character.
OpenCCChar(ch) ==
    CASE ch = "s" -> "S"
      [] ch = "u" -> "U"
      [] OTHER -> ch

\* self.converter.convert(text): the mapping table applied to every character
\* of the string it is given, markup or not.
OpenCCConvert(t) == [i \in 1..Len(t) |-> OpenCCChar(t[i])]

is_simplified_chinese(t) ==
    /\ t /= <<>>
    /\ \E i \in 1..Len(t) : t[i] \in simplified_chars

convert_to_traditional(t, cv) ==
    IF t = <<>> THEN t
    ELSE IF ~cv THEN t
    ELSE OpenCCConvert(t)

auto_convert_if_simplified(t, cv) ==
    IF t = <<>> THEN [text |-> t, changed |-> FALSE]
    ELSE IF is_simplified_chinese(t) /\ cv
         THEN [text |-> convert_to_traditional(t, cv), changed |-> TRUE]
         ELSE [text |-> t, changed |-> FALSE]

\* The first "<" of t at or after position i, or 0.
RECURSIVE NextLt(_, _)
NextLt(t, i) ==
    IF i > Len(t) THEN 0
    ELSE IF t[i] = "<" THEN i
    ELSE NextLt(t, i + 1)

\* re.findall(r'>([^<]+)<', t) from position i on: the captured groups, left
\* to right, matches not overlapping.
RECURSIVE FindAllText(_, _)
FindAllText(t, i) ==
    IF i + 2 > Len(t) THEN <<>>
    ELSE IF t[i] = ">" /\ t[i+1] /= "<" /\ NextLt(t, i+1) /= 0
         THEN LET q == NextLt(t, i+1)
              IN  <<SubSeq(t, i+1, q-1)>> \o FindAllText(t, q+1)
         ELSE FindAllText(t, i+1)

\* ' '.join(text_matches)
JoinSpace(ms) ==
    IF ms = <<>> THEN <<>>
    ELSE Head(ms) \o Join([k \in 1..(Len(ms)-1) |-> <<" ">> \o ms[k+1]])

\* A variant that runs the detection on the whole markup, not on the text
\* between the tags.
convert_html_content_DetectWholeMarkup(html, cv, raises) ==
    IF html = <<>> THEN [text |-> html, changed |-> FALSE]
    ELSE IF is_simplified_chinese(html) /\ cv
         THEN IF raises
              THEN [text |-> html, changed |-> FALSE]
              ELSE [text |-> OpenCCConvert(html), changed |-> TRUE]
         ELSE [text |-> html, changed |-> FALSE]

\* raises: self.converter.convert raises, which the method catches.
convert_html_content(html, cv, raises) ==
    IF html = <<>> THEN [text |-> html, changed |-> FALSE]
    ELSE LET combined_text == JoinSpace(FindAllText(html, 1))
         IN  IF is_simplified_chinese(combined_text) /\ cv
             THEN IF raises
                  THEN [text |-> html, changed |-> FALSE]
                  ELSE [text |-> OpenCCConvert(html), changed |-> TRUE]
             ELSE [text |-> html, changed |-> FALSE]

\* A variant that counts the positions where the two texts agree.
get_conversion_stats_CountEqual(original, converted) ==
    IF original = <<>> \/ converted = <<>>
    THEN [total_chars |-> 0, changed_chars |-> 0, change_rate |-> 0]
    ELSE LET total == Len(original)
             changed == Cardinality({i \in 1..Min(Len(original), Len(converted)) :
                                        original[i] = converted[i]})
         IN  [total_chars |-> total,
              changed_chars |-> changed,
              change_rate |-> (changed * 20000 + total) \div (2 * total)]

\* change_rate is kept in hundredths of a percent: round(x, 2) * 100.
get_conversion_stats(original, converted) ==
    IF original = <<>> \/ converted = <<>>
    THEN [total_chars |-> 0, changed_chars |-> 0, change_rate |-> 0]
    ELSE LET total == Len(original)
             changed == Cardinality({i \in 1..Min(Len(original), Len(converted)) :
                                        original[i] /= converted[i]})
         IN  [total_chars |-> total,
              changed_chars |-> changed,
              change_rate |-> (changed * 20000 + total) \div (2 * total)]

----------------------------------------------------------------------------
(* Markup trees: BeautifulSoup(content, 'html.parser') and str(soup) *)

NoneC == <<"None">>                      \* content is None
TagHtml == <<"<", "html", ">">>
TagHtmlEnd == <<"<", "/html", ">">>
TagHead == <<"<", "head", ">">>
TagHeadEnd == <<"<", "/head", ">">>
\* <link rel="stylesheet" type="text/css" href="../styles/horizontal.css"/>
LinkTag == <<"<", "link", ">">>

\* The first position at or after from where pat occurs in t, or 0.
RECURSIVE FindSub(_, _, _)
FindSub(t, pat, from) ==
    IF from + Len(pat) - 1 > Len(t) THEN 0
    ELSE IF SubSeq(t, from, from + Len(pat) - 1) = pat THEN from
    ELSE FindSub(t, pat, from + 1)

\* The tree of a document: whether it has an html element, whether it has a
\* head element, what precedes the head, the head's children, what follows.
BeautifulSoup(c) ==
    LET html == /\ Len(c) >= 6
                /\ SubSeq(c, 1, 3) = TagHtml
                /\ SubSeq(c, Len(c) - 2, Len(c)) = TagHtmlEnd
        inner == IF html THEN SubSeq(c, 4, Len(c) - 3) ELSE c
        h == FindSub(inner, TagHead, 1)
        e == IF h = 0 THEN 0 ELSE FindSub(inner, TagHeadEnd, h + 3)
        hasHead == h /= 0 /\ e /= 0
    IN  [html |-> html,
         head |-> hasHead,
         pre  |-> IF hasHead THEN SubSeq(inner, 1, h - 1) ELSE <<>>,
         kids |-> IF hasHead THEN SubSeq(inner, h + 3, e - 1) ELSE <<>>,
         post |-> IF hasHead THEN SubSeq(inner, e + 3, Len(inner)) ELSE inner]

\* str(soup)
Str(soup) ==
    (IF soup.html THEN TagHtml ELSE <<>>)
    \o soup.pre
    \o (IF soup.head THEN TagHead \o soup.kids \o TagHeadEnd ELSE <<>>)
    \o soup.post
    \o (IF soup.html THEN TagHtmlEnd ELSE <<>>)

\* if not soup.head: a new head becomes the first child of html, or of the soup.
InsertHead(soup) ==
    IF soup.head THEN soup
    ELSE [soup EXCEPT !.head = TRUE, !.pre = <<>>, !.kids = <<>>]

\* soup.head.append(css_link)
AppendLink(soup) == [soup EXCEPT !.kids = @ \o LinkTag]

\* The number of stylesheet links of a document.
LinkCount(c) == Cardinality({i \in 1..Len(c) : i + 2 <= Len(c) /\ SubSeq(c, i, i + 2) = LinkTag})

\* content_str and content_str.strip()
NonBlank(c) == \E i \in 1..Len(c) : c[i] /= " "

----------------------------------------------------------------------------
(* Packages *)

NoId == <<"none", 0>>                          \* uid is None
StyleId == <<"horizontal_style", 0>>           \* uid="horizontal_style"
StyleName == <<"styles/horizontal.css", 0>>    \* file_name="styles/horizontal.css"
CssText == <<"css">>                           \* the generated stylesheet

\* Content documents of source packages.
DocSimplified == TagHtml \o TagHead \o TagHeadEnd \o <<"<", "p", ">", "s", "u", "<", "/p", ">">> \o TagHtmlEnd
DocPlain == TagHtml \o <<"<", "p", ">", "a", "<", "/p", ">">> \o TagHtmlEnd
DocFragment == <<"<", "p", ">", "c", "<", "/p", ">">>
DocConverted == TagHtml \o TagHead \o LinkTag \o TagHeadEnd \o <<"<", "p", ">", "S", "<", "/p", ">">> \o TagHtmlEnd

\* The item epub.read_epub makes of manifest entry i: its id (None when the
\* manifest gives none), its file name, its type, its content.
Item(hasId, i, type, content) ==
    [uid |-> IF hasId THEN <<"src", i>> ELSE NoId, name |-> <<"file", i>>,
     type |-> type, content |-> content]

\* The stylesheet item that an earlier run of the rewriter added.
PriorStyle == [uid |-> StyleId, name |-> StyleName, type |-> "style", content |-> CssText]

\* The EPUB files the processor is run on, as epub.read_epub parses them:
\*   a vertical book of a Simplified chapter, a plain chapter, a chapter that
\*   is a markup fragment, and an image;
\*   the output of an earlier run of the rewriter;
\*   a damaged package: a document and an image without content, an image
\*   without id, between them a chapter;
\*   a single chapter that is a markup fragment;
\*   a book of one plain chapter whose manifest entry has no id.
BookMixed == [items |-> <<Item(TRUE, 1, "doc", DocSimplified), Item(TRUE, 2, "doc", DocPlain),
                             Item(TRUE, 3, "doc", DocFragment), Item(TRUE, 4, "other", <<"a">>)>>,
                 direction |-> "rtl"]
BookRerun == [items |-> <<Item(TRUE, 1, "doc", DocConverted), PriorStyle>>,
                 direction |-> "ltr"]
BookDamaged == [items |-> <<Item(TRUE, 1, "doc", NoneC), Item(TRUE, 2, "doc", DocFragment),
                             Item(FALSE, 3, "other", NoneC)>>,
                 direction |-> "none"]
BookFragment == [items |-> <<Item(TRUE, 1, "doc", DocFragment), Item(TRUE, 2, "other", <<>>)>>,
                 direction |-> "rtl"]
BookPlain == [items |-> <<Item(FALSE, 1, "doc", DocPlain)>>, direction |-> "none"]

Sources == {BookMixed, BookRerun, BookDamaged, BookFragment, BookPlain}

----------------------------------------------------------------------------
(* EpubProcessor *)

NoBook == [loaded |-> FALSE, items |-> <<>>, direction |-> "none"]
NoFile == [state |-> "absent", items |-> <<>>, entries |-> <<>>]
\* A file that was opened for writing and not completed.
PartialFile == [state |-> "partial", items |-> <<>>, entries |-> <<>>]
ZeroStats == [simplified_detected |-> FALSE, conversion_performed |-> FALSE,
              total_chars |-> 0, changed_chars |-> 0]

NoFail == [idx |-> 0, step |-> "none"]
\* The calls of the per-item pass that can raise, for the item at idx:
\*   parse    BeautifulSoup(item.get_content(), 'html.parser')
\*   inject   soup.new_tag / insert / append
\*   convert  self.converter.convert inside convert_html_content
\*   reparse  BeautifulSoup(converted_content, 'html.parser')
\*   write    item.set_content(content_str.encode('utf-8'))
FailSteps == {"parse", "inject", "convert", "reparse", "write"}
Fails(items) == {NoFail} \cup [idx : 1..Len(items), step : FailSteps]

\* A call and its return value; for a modify also its argument and the
\* failure it met.
Call(op, ret) == [op |-> op, ret |-> ret, convert |-> FALSE, fail |-> NoFail]

\* css_item = epub.EpubItem(uid="horizontal_style", file_name="styles/horizontal.css", ...)
css_item == [uid |-> StyleId, name |-> StyleName, type |-> "style", content |-> CssText]

\* A variant that adds the statistics of every document, converted or not.
process_item_CountEveryDocument(item, st, convert_simplified, cv, f) ==
    IF item.content = NoneC \/ f \in {"parse", "inject"}
    THEN [content |-> item.content, stats |-> st, raised |-> TRUE]
    ELSE LET soup == AppendLink(InsertHead(BeautifulSoup(item.content)))
             original_content == Str(soup)
             r == convert_html_content(original_content, cv, f = "convert")
             was_converted == convert_simplified /\ r.changed
             s1 == get_conversion_stats(original_content, r.text)
             st1 == IF convert_simplified
                    THEN [simplified_detected |-> TRUE,
                          conversion_performed |-> TRUE,
                          total_chars |-> st.total_chars + s1.total_chars,
                          changed_chars |-> st.changed_chars + s1.changed_chars]
                    ELSE st
             soup1 == IF was_converted /\ f /= "reparse" THEN BeautifulSoup(r.text) ELSE soup
             content_str == Str(soup1)
         IN  [content |-> IF NonBlank(content_str) /\ f /= "write"
                          THEN content_str
                          ELSE item.content,
              stats |-> st1,
              raised |-> FALSE]

\* What the loop body does to the document items[i], given the statistics so far.
\* raised: an exception leaves the body (and the loop, and the method).
process_item(item, st, convert_simplified, cv, f) ==
    IF item.content = NoneC \/ f \in {"parse", "inject"}
    THEN [content |-> item.content, stats |-> st, raised |-> TRUE]
    ELSE LET soup == AppendLink(InsertHead(BeautifulSoup(item.content)))
             original_content == Str(soup)
             r == convert_html_content(original_content, cv, f = "convert")
             was_converted == convert_simplified /\ r.changed
             s1 == get_conversion_stats(original_content, r.text)
             st1 == IF was_converted
                    THEN [simplified_detected |-> TRUE,
                          conversion_performed |-> TRUE,
                          total_chars |-> st.total_chars + s1.total_chars,
                          changed_chars |-> st.changed_chars + s1.changed_chars]
                    ELSE st
             soup1 == IF was_converted /\ f /= "reparse" THEN BeautifulSoup(r.text) ELSE soup
             content_str == Str(soup1)
         IN  [content |-> IF NonBlank(content_str) /\ f /= "write"
                          THEN content_str
                          ELSE item.content,
              stats |-> st1,
              raised |-> FALSE]

\* for item in self.book.get_items(): ..., from item i on.
RECURSIVE add_css_to_html_files(_, _, _, _, _, _)
add_css_to_html_files(items, i, st, convert_simplified, cv, fail) ==
    IF i > Len(items) THEN [items |-> items, stats |-> st, raised |-> FALSE]
    ELSE IF items[i].type /= "doc"
         THEN add_css_to_html_files(items, i + 1, st, convert_simplified, cv, fail)
         ELSE LET r == process_item(items[i], st, convert_simplified, cv,
                                    IF fail.idx = i THEN fail.step ELSE "none")
              IN  IF r.raised
                  THEN [items |-> items, stats |-> r.stats, raised |-> TRUE]
                  ELSE add_css_to_html_files([items EXCEPT ![i].content = r.content],
                                             i + 1, r.stats, convert_simplified, cv, fail)

\* The minimal document of _validate_book_content.
StubDoc == TagHtml \o TagHead \o <<"<", "title", ">", "a", "<", "/title", ">">> \o TagHeadEnd
           \o <<"<", "body", ">", "<", "/body", ">">> \o TagHtmlEnd

\* A variant that repairs the identifier and leaves a None content as it is.
validate_item_KeepNone(item, i) ==
    [item EXCEPT !.uid = IF @ = NoId THEN <<"item", i>> ELSE @]

\* One item after _validate_book_content; id(item) is the item's place in the list.
validate_item(item, i) ==
    [item EXCEPT
        !.uid = IF @ = NoId THEN <<"item", i>> ELSE @,
        !.content = IF @ = NoneC
                    THEN IF item.type = "doc" THEN StubDoc ELSE <<>>
                    ELSE @]

validate_book_content(items) == [i \in 1..Len(items) |-> validate_item(items[i], i)]

(***************************************************************************)
(* The package document is a sequence of tokens:                           *)
(*   "<spine" ">"   the start and the end of the start tag of the spine    *)
(*   "toc"          its attribute toc="ncx"                                *)
(*   "ppd_dq_rtl", "ppd_dq_ltr", "ppd_dq_default"                          *)
(*                  the attribute page-progression-direction="..."         *)
(*   "ppd_sq_rtl", "ppd_sq_ltr"                                            *)
(*                  the attribute page-progression-direction='...'         *)
(*   "w"            the words page-progression-direction in a text of the  *)
(*                  metadata                                               *)
(*   "x"            any other markup or text                               *)
(***************************************************************************)
DqAttrs == {"ppd_dq_ltr", "ppd_dq_rtl", "ppd_dq_default"}
SqAttrs == {"ppd_sq_ltr", "ppd_sq_rtl"}
PpdAttrs == DqAttrs \cup SqAttrs

\* re.sub(r'page-progression-direction="[^"]*"', 'page-progression-direction="ltr"', opf_content)
ReplaceDirection(t) == [i \in 1..Len(t) |-> IF t[i] \in DqAttrs THEN "ppd_dq_ltr" ELSE t[i]]

\* 'page-progression-direction' in opf_content
MentionsDirection(t) == \E i \in 1..Len(t) : t[i] \in PpdAttrs \cup {"w"}

\* re.sub(r'(<spine[^>]*)(>)', r'\1 page-progression-direction="ltr"\2', opf_content)
RECURSIVE InsertDirection(_, _)
InsertDirection(t, inSpine) ==
    IF t = <<>> THEN <<>>
    ELSE IF Head(t) = "<spine" THEN <<Head(t)>> \o InsertDirection(Tail(t), TRUE)
    ELSE IF Head(t) = ">" /\ inSpine
         THEN <<"ppd_dq_ltr", ">">> \o InsertDirection(Tail(t), FALSE)
    ELSE <<Head(t)>> \o InsertDirection(Tail(t), inSpine)

\* The two substitutions of _post_process_opf on the package document.
patch_opf(opf_content) ==
    LET r == ReplaceDirection(opf_content)
    IN  IF MentionsDirection(r) THEN r ELSE InsertDirection(r, FALSE)

\* The package document epub.write_epub writes: the spine carries the
\* direction of the book when it has one.
DirectionAttr(direction) ==
    CASE direction = "rtl" -> <<"ppd_dq_rtl">>
      [] direction = "ltr" -> <<"ppd_dq_ltr">>
      [] OTHER -> <<>>
OpfOf(direction) == <<"x", "<spine", "toc">> \o DirectionAttr(direction) \o <<">", "x">>

Entry(name, content) == [name |-> name, content |-> content]
OpfName == <<"EPUB/content.opf", 0>>

\* epub.write_epub: the archive at the output path.  items: the manifest
\* items as they are written; entries: the entries of the ZIP file, in order,
\* one for every item under its file name, written as it is.
write_epub(items, direction) ==
    [state |-> "archive", items |-> items,
     entries |-> <<Entry(<<"mimetype", 0>>, <<"application/epub+zip">>),
                   Entry(<<"META-INF/container.xml", 0>>, <<"container">>),
                   Entry(OpfName, OpfOf(direction))>>
                 \o [i \in 1..Len(items) |-> Entry(items[i].name, items[i].content)]]

\* zip_read.read(name): the content of the last entry of that name.
ZipRead(entries, name) ==
    LET i == CHOOSE k \in 1..Len(entries) :
                 /\ entries[k].name = name
                 /\ \A j \in (k + 1)..Len(entries) : entries[j].name /= name
    IN  entries[i].content

\* temp_files after the entries from i on: a dict, kept in the order in
\* which its keys were first set.
RECURSIVE temp_files(_, _, _)
temp_files(entries, i, acc) ==
    IF i > Len(entries) THEN acc
    ELSE LET name == entries[i].name
             content == IF name = OpfName THEN patch_opf(ZipRead(entries, name))
                        ELSE ZipRead(entries, name)
         IN  IF \E k \in 1..Len(acc) : acc[k].name = name
             THEN temp_files(entries, i + 1,
                      [k \in 1..Len(acc) |->
                          IF acc[k].name = name THEN Entry(name, content) ELSE acc[k]])
             ELSE temp_files(entries, i + 1, Append(acc, Entry(name, content)))

\* _post_process_opf, on the archive at the output path.
post_process_opf(archive, p) ==
    CASE p = "ok" -> [archive EXCEPT !.entries = temp_files(@, 1, <<>>)]
      [] p \in {"read", "locate", "reopen"} -> archive
      [] OTHER -> PartialFile


\* What can happen to epub.write_epub:
\*   ok      the first call writes the archive
\*   retry   the first call raises, the call with ignore_ncx writes the archive
\*   early   both calls raise before the output file is opened
\*   fail    both calls raise with the output file open
WriteOutcomes == {"ok", "retry", "early", "fail"}
\* What can happen to _post_process_opf: it completes, or it raises while
\* reading the archive, while locating the package document, while opening
\* the archive for writing, or while writing the entries.
PatchOutcomes == {"ok", "read", "locate", "reopen", "rewrite"}

\* The document as the conversion takes it: with its link injected.
Before(item) == Str(AppendLink(InsertHead(BeautifulSoup(item.content))))

\* A failure is one the call meets: of a document that the loop reaches and
\* can parse, and in the conversion only where the document is converted.
CanFail(items, convert_simplified, cv, f) ==
    \/ f = NoFail
    \/ /\ f /= NoFail
       /\ f.idx \in 1..Len(items)
       /\ items[f.idx].type = "doc"
       /\ \A j \in 1..f.idx : items[j].type = "doc" => items[j].content /= NoneC
       /\ f.step \in {"convert", "reparse"} =>
             /\ convert_simplified
             /\ convert_html_content(Before(items[f.idx]), cv, FALSE).changed

load_epub(ok) ==
    /\ nOps < MaxOps
    /\ nOps' = nOps + 1
    /\ IF ok
       THEN /\ book' = [loaded |-> TRUE, items |-> file.items, direction |-> file.direction]
            /\ phase' = "Loaded"
       ELSE UNCHANGED <<book, phase>>
    /\ last' = Call("load", ok)
    /\ UNCHANGED <<stats, out, file, conv, convVars, pdfVars, detVars, opfVars, mdVars, guiVars>>

modify_reading_direction_and_font(convert_simplified, fail) ==
    /\ nOps < MaxOps
    /\ nOps' = nOps + 1
    /\ CanFail(book.items, convert_simplified, conv, fail)
    /\ IF ~book.loaded
       THEN /\ last' = [Call("modify", FALSE) EXCEPT !.convert = convert_simplified]
            /\ UNCHANGED <<book, stats, phase>>
       ELSE LET r == add_css_to_html_files(Append(book.items, css_item), 1, stats,
                                           convert_simplified, conv, fail)
            IN  /\ book' = [book EXCEPT !.items = r.items]
                /\ stats' = r.stats
                /\ phase' = IF r.raised THEN phase ELSE "Modified"
                /\ last' = [Call("modify", ~r.raised) EXCEPT !.convert = convert_simplified,
                                                              !.fail = fail]
    /\ UNCHANGED <<out, file, conv, convVars, pdfVars, detVars, opfVars, mdVars, guiVars>>

save_epub(w, p) ==
    /\ nOps < MaxOps
    /\ nOps' = nOps + 1
    /\ IF ~book.loaded
       THEN /\ last' = Call("save", FALSE)
            /\ UNCHANGED <<book, out, phase>>
       ELSE LET items == validate_book_content(book.items)
            IN  /\ book' = [book EXCEPT !.items = items]
                /\ IF w \in {"early", "fail"}
                   THEN /\ out' = IF w = "early" THEN out ELSE PartialFile
                        /\ last' = Call("save", FALSE)
                        /\ UNCHANGED phase
                   ELSE /\ out' = post_process_opf(write_epub(items, book.direction), p)
                        /\ last' = Call("save", TRUE)
                        /\ phase' = "Saved"
    /\ UNCHANGED <<stats, file, conv, convVars, pdfVars, detVars, opfVars, mdVars, guiVars>>

----------------------------------------------------------------------------
(* Converter operations on one argument *)

Alphabet == {"<", ">", "a", "s", "c", "u"}
Texts == UNION {[1..n -> Alphabet] : n \in 0..MaxLen}

NoRes == [op |-> "none", text |-> <<>>, changed |-> FALSE, raises |-> FALSE]

ConvertToTraditional ==
    /\ res' = [op |-> "convert_to_traditional", text |-> convert_to_traditional(text, conv),
               changed |-> FALSE, raises |-> FALSE]
    /\ UNCHANGED <<text, conv, epubVars, pdfVars, detVars, opfVars, mdVars, guiVars>>

AutoConvertIfSimplified ==
    /\ LET r == auto_convert_if_simplified(text, conv)
       IN  res' = [op |-> "auto_convert_if_simplified", text |-> r.text,
                   changed |-> r.changed, raises |-> FALSE]
    /\ UNCHANGED <<text, conv, epubVars, pdfVars, detVars, opfVars, mdVars, guiVars>>

ConvertHtmlContent(raises) ==
    /\ LET r == convert_html_content(text, conv, raises)
       IN  res' = [op |-> "convert_html_content", text |-> r.text,
                   changed |-> r.changed, raises |-> raises]
    /\ UNCHANGED <<text, conv, epubVars, pdfVars, detVars, opfVars, mdVars, guiVars>>

\* get_conversion_stats(text, converted): the texts are an original and what
\* a conversion made of it, or any two texts.
StatAlphabet == {"a", "s", "S"}
StatTexts == UNION {[1..n -> StatAlphabet] : n \in 0..MaxStatLen}

GetConversionStats(converted) ==
    /\ res' = [op |-> "get_conversion_stats", text |-> converted,
               changed |-> FALSE, raises |-> FALSE,
               stats |-> get_conversion_stats(text, converted)]
    /\ UNCHANGED <<text, conv, epubVars, pdfVars, detVars, opfVars, mdVars, guiVars>>

----------------------------------------------------------------------------
(* PdfProcessor *)

(***************************************************************************)
(* The text of a PDF page is a sequence of tokens:                         *)
(*   "di" "zhang" "jie" "dun"  the characters U+7B2C, U+7AE0, U+7BC0 and   *)
(*                             U+3001 of the chapter patterns              *)
(*   "n"                       a Han numeral (U+4E00 .. U+5341)            *)
(*   "d"                       a digit                                     *)
(*   "."  " "                  a full stop, a blank                        *)
(*   "nl2"                     a blank line, "\n\n"                        *)
(*   "Chapter" "CHAPTER" "chapter"  the word, as it is written             *)
(*   "a" "A"                   a lower-case letter, an upper-case letter   *)
(*   "s"                       a Simplified character, as above            *)
(*   "a48" "A98"               48 lower-case letters, 98 upper-case ones   *)
(***************************************************************************)
ChapterWords == {"Chapter", "CHAPTER", "chapter"}
UpperTokens == {"A", "CHAPTER", "A98"}
LowerTokens == {"a", "Chapter", "chapter", "a48"}
Blank == {" "}

\* len(text)
TokenLen(ch) ==
    IF ch \in ChapterWords THEN 7
    ELSE IF ch = "nl2" THEN 2
    ELSE IF ch = "a48" THEN 48
    ELSE IF ch = "A98" THEN 98
    ELSE 1
RECURSIVE TextLen(_)
TextLen(t) == IF t = <<>> THEN 0 ELSE TokenLen(Head(t)) + TextLen(Tail(t))

\* str.isupper(): a cased character, and no lower-case one
isupper(t) ==
    /\ \E i \in 1..Len(t) : t[i] \in UpperTokens
    /\ \A i \in 1..Len(t) : t[i] \notin LowerTokens

\* str.strip()
RECURSIVE lstrip(_)
lstrip(t) == IF t /= <<>> /\ Head(t) \in Blank \cup {"nl2"} THEN lstrip(Tail(t)) ELSE t
RECURSIVE rstrip(_)
rstrip(t) ==
    IF t /= <<>> /\ t[Len(t)] \in Blank \cup {"nl2"}
    THEN rstrip(SubSeq(t, 1, Len(t) - 1))
    ELSE t
strip(t) == rstrip(lstrip(t))

\* text.split('\n\n'): the pieces of t between the blank lines, cur being the
\* piece that is open.
RECURSIVE SplitParas(_, _)
SplitParas(t, cur) ==
    IF t = <<>> THEN <<cur>>
    ELSE IF Head(t) = "nl2" THEN <<cur>> \o SplitParas(Tail(t), <<>>)
    ELSE SplitParas(Tail(t), Append(cur, Head(t)))

\* [p.strip() for p in text.split('\n\n') if p.strip()]
RECURSIVE StripNonEmpty(_)
StripNonEmpty(ps) ==
    IF ps = <<>> THEN <<>>
    ELSE IF strip(Head(ps)) = <<>> THEN StripNonEmpty(Tail(ps))
    ELSE <<strip(Head(ps))>> \o StripNonEmpty(Tail(ps))

Paragraphs(t) == StripNonEmpty(SplitParas(t, <<>>))

ChapterLenLimit == 100      \* len(para_text) < 100
TitleLenLimit == 50         \* len(para) < 50
DefaultFontSize == 12
TitleFontSize == 16

\* dict.get(key, default), and dict[key] = value
Get(dict, key, default) == IF key \in DOMAIN dict THEN dict[key] ELSE default
SetKey(dict, key, value) ==
    [k \in DOMAIN dict \cup {key} |-> IF k = key THEN value ELSE dict[k]]

\* The paragraph dict extract_text_with_structure makes: no 'is_title' key.
StructParagraph(t) ==
    [text |-> t, font_size |-> DefaultFontSize,
     is_chapter |-> TextLen(t) < ChapterLenLimit /\ isupper(t)]

\* The paragraph dict extract_with_pdfplumber makes: no 'is_chapter' key.
PlumberParagraph(t) ==
    LET is_title == \/ isupper(t) /\ TextLen(t) < ChapterLenLimit
                    \/ TextLen(t) < TitleLenLimit /\ t[Len(t)] /= "."
    IN  [text |-> t, is_title |-> is_title,
         font_size |-> IF is_title THEN TitleFontSize ELSE DefaultFontSize]

\* PDF files.  opens: PyPDF2.PdfReader(path) and pdfplumber.open(path) read the
\* file; counts: len(reader.pages) succeeds (it does not for an encrypted
\* file); title: the /Title of the metadata, 'Unknown' when there is none; a
\* page is its text, or raises when its text is extracted.
Page(t) == [text |-> t, raises |-> FALSE]
BadPage == [text |-> <<>>, raises |-> TRUE]

PdfChapters == [name |-> "chapters.pdf", opens |-> TRUE, counts |-> TRUE,
                title |-> <<"A", "a">>,
                pages |-> <<Page(<<"di", "n", "zhang", "nl2", "a", "s", ".", "nl2", " ">>),
                            Page(<<>>),
                            Page(<<"A", " ", "A", "nl2", "a", ".">>)>>]
PdfScanned == [name |-> "scanned.pdf", opens |-> TRUE, counts |-> TRUE,
               title |-> <<"Unknown">>,
               pages |-> <<Page(<<>>), Page(<<" ", "nl2", " ">>)>>]
PdfEncrypted == [name |-> "encrypted.pdf", opens |-> TRUE, counts |-> FALSE,
                 title |-> <<"Unknown">>,
                 pages |-> <<Page(<<"a">>)>>]
PdfCorrupt == [name |-> "corrupt.pdf", opens |-> FALSE, counts |-> FALSE,
               title |-> <<"Unknown">>, pages |-> <<>>]
PdfBadPage == [name |-> "badpage.pdf", opens |-> TRUE, counts |-> TRUE,
               title |-> <<"Unknown">>,
               pages |-> <<BadPage, Page(<<"Chapter", " ", "d", "nl2", "a">>)>>]
PdfSources == {PdfChapters, PdfScanned, PdfEncrypted, PdfCorrupt, PdfBadPage}

PdfNamed(name) == CHOOSE f \in PdfSources : f.name = name

NoPdf == [document |-> "None", file_path |-> "None"]

\* load_pdf: the processor afterwards, and the value returned.
load_pdf(p, e, f) ==
    IF ~(e.pypdf2 \/ e.pdfplumber) THEN [pdf |-> p, ret |-> FALSE]
    ELSE IF ~e.pypdf2 THEN [pdf |-> [p EXCEPT !.file_path = f.name], ret |-> TRUE]
    ELSE IF ~f.opens THEN [pdf |-> p, ret |-> FALSE]
    ELSE IF ~f.counts THEN [pdf |-> [p EXCEPT !.document = f.name], ret |-> FALSE]
    ELSE [pdf |-> [document |-> f.name, file_path |-> f.name], ret |-> TRUE]

\* One page of extract_text_with_structure: a page_content, or nothing when
\* the page raises or has no paragraph.
StructPage(page, page_num) ==
    LET paras == Paragraphs(page.text)
    IN  IF page.raises \/ paras = <<>> THEN <<>>
        ELSE <<[page_number |-> page_num + 1,
                paragraphs |-> [i \in 1..Len(paras) |-> StructParagraph(paras[i])]]>>

RECURSIVE StructPages(_, _)
StructPages(ps, page_num) ==
    IF page_num >= Len(ps) THEN <<>>
    ELSE StructPage(ps[page_num + 1], page_num) \o StructPages(ps, page_num + 1)

extract_text_with_structure(p, e) ==
    IF p.file_path = "None" THEN <<>>
    ELSE IF p.document /= "None" /\ e.pypdf2
         THEN StructPages(PdfNamed(p.document).pages, 0)
         ELSE <<>>

\* extract_simple_text: full_text += text + "\n\n" for every page, stripped;
\* "" when a page raises.
RECURSIVE FullText(_)
FullText(ps) == IF ps = <<>> THEN <<>> ELSE Head(ps).text \o <<"nl2">> \o FullText(Tail(ps))

extract_simple_text(p) ==
    IF p.document = "None" THEN <<>>
    ELSE LET ps == PdfNamed(p.document).pages
         IN  IF \E i \in 1..Len(ps) : ps[i].raises THEN <<>> ELSE strip(FullText(ps))

\* extract_with_pdfplumber(file_path): the pages up to the first that raises.
RECURSIVE PlumberPages(_, _)
PlumberPages(ps, page_num) ==
    IF page_num >= Len(ps) \/ ps[page_num + 1].raises THEN <<>>
    ELSE LET paras == Paragraphs(ps[page_num + 1].text)
         IN  (IF paras = <<>> THEN <<>>
              ELSE <<[page_number |-> page_num + 1,
                      paragraphs |-> [i \in 1..Len(paras) |-> PlumberParagraph(paras[i])]]>>)
             \o PlumberPages(ps, page_num + 1)

extract_with_pdfplumber(e, f) ==
    IF ~e.pdfplumber \/ ~f.opens \/ ~f.counts THEN <<>> ELSE PlumberPages(f.pages, 0)

close(p) == NoPdf

\* The index after the longest run of tokens of S in t that starts at i.
RECURSIVE Run(_, _, _)
Run(t, i, S) == IF i <= Len(t) /\ t[i] \in S THEN Run(t, i + 1, S) ELSE i

\* A variant that matches the English pattern as it is written, without
\* re.IGNORECASE.
MatchesChapterPattern_CaseSensitive(t) ==
    LET cjk == Run(t, 2, {"n", "d"})
        sp  == Run(t, 2, Blank)
        dg  == Run(t, 1, {"d"})
        nm  == Run(t, 1, {"n"})
    IN  /\ t /= <<>>
        /\ \/ t[1] = "di" /\ cjk > 2 /\ cjk <= Len(t) /\ t[cjk] = "zhang"
           \/ t[1] = "Chapter" /\ sp > 2 /\ sp <= Len(t) /\ t[sp] = "d"
           \/ t[1] = "di" /\ cjk > 2 /\ cjk <= Len(t) /\ t[cjk] = "jie"
           \/ dg > 1 /\ dg <= Len(t) /\ t[dg] = "."
           \/ nm > 1 /\ nm <= Len(t) /\ t[nm] = "dun"

\* re.match(pattern, text, re.IGNORECASE) for the five chapter_patterns, in order.
MatchesChapterPattern(t) ==
    LET cjk == Run(t, 2, {"n", "d"})
        sp  == Run(t, 2, Blank)
        dg  == Run(t, 1, {"d"})
        nm  == Run(t, 1, {"n"})
    IN  /\ t /= <<>>
        /\ \/ t[1] = "di" /\ cjk > 2 /\ cjk <= Len(t) /\ t[cjk] = "zhang"
           \/ t[1] \in ChapterWords /\ sp > 2 /\ sp <= Len(t) /\ t[sp] = "d"
           \/ t[1] = "di" /\ cjk > 2 /\ cjk <= Len(t) /\ t[cjk] = "jie"
           \/ dg > 1 /\ dg <= Len(t) /\ t[dg] = "."
           \/ nm > 1 /\ nm <= Len(t) /\ t[nm] = "dun"

\* A variant that marks a paragraph matching no pattern as a chapter when it
\* was a title, and takes the title mark away.
detect_paragraph_MoveTitle(paragraph) ==
    IF MatchesChapterPattern(paragraph.text)
    THEN SetKey(SetKey(paragraph, "is_chapter", TRUE), "is_title", TRUE)
    ELSE SetKey(SetKey(paragraph, "is_chapter", Get(paragraph, "is_title", FALSE)),
                "is_title", FALSE)

\* The loop body of detect_chapters, for one paragraph.
detect_paragraph(paragraph) ==
    IF MatchesChapterPattern(paragraph.text)
    THEN SetKey(SetKey(paragraph, "is_chapter", TRUE), "is_title", TRUE)
    ELSE SetKey(paragraph, "is_chapter", FALSE)

detect_page(page) ==
    [page EXCEPT !.paragraphs = [i \in 1..Len(@) |-> detect_paragraph(@[i])]]

detect_chapters(pages_content) ==
    [i \in 1..Len(pages_content) |-> detect_page(pages_content[i])]

\* A Markdown file is a sequence of blocks: headings of level 1 to 3, and
\* text (level 0).
Block(level, t) == [level |-> level, text |-> t]
MdFile(blocks) == [state |-> "md", blocks |-> blocks]
PdfNoFile == [state |-> "absent", blocks |-> <<>>]
PdfPartialFile == [state |-> "partial", blocks |-> <<>>]

\* One paragraph of _convert_to_markdown.
MarkdownParagraph(para) ==
    IF strip(para.text) = <<>> THEN <<>>
    ELSE <<Block(IF Get(para, "is_chapter", FALSE) THEN 3 ELSE 0, strip(para.text))>>

RECURSIVE ConcatAll(_)
ConcatAll(qs) == IF qs = <<>> THEN <<>> ELSE Head(qs) \o ConcatAll(Tail(qs))

RECURSIVE MarkdownPages(_, _)
MarkdownPages(pages_content, page_idx) ==
    IF page_idx >= Len(pages_content) THEN <<>>
    ELSE <<Block(2, <<"page", page_idx + 1>>)>>
         \o LET paras == pages_content[page_idx + 1].paragraphs
            IN  ConcatAll([i \in 1..Len(paras) |-> MarkdownParagraph(paras[i])])
         \o MarkdownPages(pages_content, page_idx + 1)

convert_to_markdown(pages_content) ==
    <<Block(1, <<"PDF">>)>> \o MarkdownPages(pages_content, 0)

\* MarkdownGenerator._merge_pdf_pages
RECURSIVE merge_pdf_pages(_)
merge_pdf_pages(pages_content) ==
    IF pages_content = <<>> THEN <<>>
    ELSE Head(pages_content).paragraphs \o merge_pdf_pages(Tail(pages_content))

TitleCut == 50     \* paragraph['text'][:50]

\* t[:n], a word never cut.
RECURSIVE TakeLen(_, _)
TakeLen(t, n) ==
    IF t = <<>> \/ TokenLen(Head(t)) > n THEN <<>>
    ELSE <<Head(t)>> \o TakeLen(Tail(t), n - TokenLen(Head(t)))

ChapterTitle(t) == IF TextLen(t) > TitleCut THEN Append(TakeLen(t, TitleCut), "...") ELSE t

\* A variant that starts a chapter at the paragraphs marked is_chapter only.
RECURSIVE detect_pdf_chapters_ChapterOnly(_, _, _)
detect_pdf_chapters_ChapterOnly(paragraphs, chapters, cur) ==
    IF paragraphs = <<>> THEN chapters \o cur
    ELSE LET paragraph == Head(paragraphs)
             body == Append(paragraph.text, "nl2")
         IN  IF Get(paragraph, "is_chapter", FALSE)
             THEN detect_pdf_chapters_ChapterOnly(Tail(paragraphs), chapters \o cur,
                      <<[title |-> ChapterTitle(paragraph.text), content |-> body]>>)
             ELSE IF cur /= <<>>
                  THEN detect_pdf_chapters_ChapterOnly(Tail(paragraphs), chapters,
                           <<[cur[1] EXCEPT !.content = @ \o body]>>)
                  ELSE detect_pdf_chapters_ChapterOnly(Tail(paragraphs), chapters,
                           <<[title |-> <<"Introduction">>, content |-> body]>>)

\* MarkdownGenerator._detect_pdf_chapters: the chapters closed so far and the
\* chapter that is open (cur; <<>> when none is).
RECURSIVE detect_pdf_chapters(_, _, _)
detect_pdf_chapters(paragraphs, chapters, cur) ==
    IF paragraphs = <<>> THEN chapters \o cur
    ELSE LET paragraph == Head(paragraphs)
             body == Append(paragraph.text, "nl2")
         IN  IF Get(paragraph, "is_title", FALSE) \/ Get(paragraph, "is_chapter", FALSE)
             THEN detect_pdf_chapters(Tail(paragraphs), chapters \o cur,
                      <<[title |-> ChapterTitle(paragraph.text), content |-> body]>>)
             ELSE IF cur /= <<>>
                  THEN detect_pdf_chapters(Tail(paragraphs), chapters,
                           <<[cur[1] EXCEPT !.content = @ \o body]>>)
                  ELSE detect_pdf_chapters(Tail(paragraphs), chapters,
                           <<[title |-> <<"Introduction">>, content |-> body]>>)

\* MarkdownGenerator._generate_complete_pdf_file: the title, then every
\* chapter that has content.
ChapterBlocks(chapter) ==
    IF strip(chapter.content) = <<>> THEN <<>>
    ELSE <<Block(2, chapter.title), Block(0, chapter.content)>>

generate_complete_pdf_file(chapters, title) ==
    <<Block(1, title)>> \o ConcatAll([i \in 1..Len(chapters) |-> ChapterBlocks(chapters[i])])

generate_from_pdf_content(pages_content, title) ==
    generate_complete_pdf_file(detect_pdf_chapters(merge_pdf_pages(pages_content), <<>>, <<>>),
                               title)

\* The conversion loop of process_pdf_file.
ConvertParagraph(cv, paragraph) ==
    LET r == auto_convert_if_simplified(paragraph.text, cv)
    IN  IF r.changed THEN [paragraph EXCEPT !.text = r.text] ELSE paragraph

ConvertPdfPages(pages_content, cv) ==
    [i \in 1..Len(pages_content) |->
        [pages_content[i] EXCEPT !.paragraphs =
            [j \in 1..Len(@) |-> ConvertParagraph(cv, @[j])]]]

CountParagraphs(pages_content) == Len(merge_pdf_pages(pages_content))

\* get_pdf_info()['title'] as _generate_complete_pdf_file uses it.
PdfTitle(p) ==
    IF p.document = "None" THEN <<"PDF Document">>
    ELSE LET t == PdfNamed(p.document).title
         IN  IF t = <<"Unknown">> \/ strip(t) = <<>> THEN <<"PDF Document">> ELSE t

\* What can happen when the output file is written:
\*   ok     it is written
\*   early  open(output_path, 'w') raises: no file is made
\*   fail   f.write raises: the file is left as it was opened
FileOutcomes == {"ok", "early", "fail"}
OutputFormats == {"md", "epub", "mobi"}

WriteFile(outBefore, content, w) ==
    CASE w = "ok" -> content
      [] w = "early" -> outBefore
      [] OTHER -> PdfPartialFile

\* pdf_to_markdown(input_path, output_path): the processor and the output
\* file afterwards, the value returned, and the number of paragraphs the
\* extraction gave (-1 when it was not reached).
pdf_to_markdown(p, e, f, w, outBefore) ==
    LET l == load_pdf(p, e, f)
        pages_content == IF e.pdfplumber THEN extract_with_pdfplumber(e, f)
                         ELSE extract_text_with_structure(l.pdf, e)
    IN  IF ~l.ret
        THEN [pdf |-> l.pdf, out |-> outBefore, ret |-> FALSE, nparas |-> -1]
        ELSE IF pages_content = <<>>
        THEN [pdf |-> l.pdf, out |-> outBefore, ret |-> FALSE, nparas |-> 0]
        ELSE [pdf |-> IF w = "ok" THEN close(l.pdf) ELSE l.pdf,
              out |-> WriteFile(outBefore, MdFile(convert_to_markdown(pages_content)), w),
              ret |-> w = "ok",
              nparas |-> CountParagraphs(pages_content)]

\* process_pdf_file of src/app.py, on a PdfProcessor of its own.  PdfProcessor
\* has no method pdf_to_epub: the call raises AttributeError, which the
\* handler turns into an error result.
process_pdf_file(e, f, output_format, convert_simplified, cv, w, outBefore) ==
    LET l == load_pdf(NoPdf, e, f)
        extracted == detect_chapters(extract_text_with_structure(l.pdf, e))
        pages_content == IF convert_simplified THEN ConvertPdfPages(extracted, cv)
                         ELSE extracted
        n == CountParagraphs(pages_content)
    IN  IF ~l.ret
        THEN [pdf |-> close(l.pdf), out |-> outBefore, ret |-> FALSE, nparas |-> -1]
        ELSE IF output_format = "md"
        THEN [pdf |-> close(l.pdf),
              out |-> WriteFile(outBefore,
                         MdFile(generate_from_pdf_content(pages_content, PdfTitle(l.pdf))), w),
              ret |-> w = "ok",
              nparas |-> n]
        ELSE [pdf |-> close(l.pdf), out |-> outBefore, ret |-> FALSE, nparas |-> n]

\* The PDF branch of convert_file of src/app_render.py, on a PdfProcessor of
\* its own.
convert_file(e, f, output_format, w, outBefore) ==
    IF output_format /= "md"
    THEN [pdf |-> NoPdf, out |-> outBefore, ret |-> FALSE, nparas |-> -1]
    ELSE pdf_to_markdown(NoPdf, e, f, w, outBefore)

----------------------------------------------------------------------------
(* Operations on a PdfProcessor, and the conversion entry points *)

MaxPdfOps == 3     \* calls made in one behaviour

PdfCall(op, ret, f, fmt, nparas, result) ==
    [op |-> op, ret |-> ret, file |-> f, fmt |-> fmt, nparas |-> nparas, result |-> result]
NoPdfCall == PdfCall("init", TRUE, "None", "none", -1, <<>>)

PdfStep == nPdf < MaxPdfOps /\ nPdf' = nPdf + 1

LoadPdf(f) ==
    /\ PdfStep
    /\ LET l == load_pdf(pdf, env, f)
       IN  /\ pdf' = l.pdf
           /\ pdfLast' = PdfCall("load_pdf", l.ret, f.name, "none", -1, <<>>)
    /\ UNCHANGED <<env, pdfOut, epubVars, conv, convVars, detVars, opfVars, mdVars, guiVars>>

ExtractSimpleText ==
    /\ PdfStep
    /\ pdfLast' = PdfCall("extract_simple_text", TRUE, pdf.file_path, "none", -1,
                          extract_simple_text(pdf))
    /\ UNCHANGED <<env, pdf, pdfOut, epubVars, conv, convVars, detVars, opfVars, mdVars, guiVars>>

ExtractTextWithStructure ==
    /\ PdfStep
    /\ LET pages_content == extract_text_with_structure(pdf, env)
       IN  pdfLast' = PdfCall("extract_text_with_structure", TRUE, pdf.file_path, "none",
                              CountParagraphs(pages_content), pages_content)
    /\ UNCHANGED <<env, pdf, pdfOut, epubVars, conv, convVars, detVars, opfVars, mdVars, guiVars>>

Close ==
    /\ PdfStep
    /\ pdf' = close(pdf)
    /\ pdfLast' = PdfCall("close", TRUE, "None", "none", -1, <<>>)
    /\ UNCHANGED <<env, pdfOut, epubVars, conv, convVars, detVars, opfVars, mdVars, guiVars>>

PdfToMarkdown(f, w) ==
    /\ PdfStep
    /\ LET r == pdf_to_markdown(pdf, env, f, w, pdfOut)
       IN  /\ pdf' = r.pdf
           /\ pdfOut' = r.out
           /\ pdfLast' = PdfCall("pdf_to_markdown", r.ret, f.name, "md", r.nparas, <<>>)
    /\ UNCHANGED <<env, epubVars, conv, convVars, detVars, opfVars, mdVars, guiVars>>

ProcessPdfFile(f, output_format, convert_simplified, w) ==
    /\ PdfStep
    /\ LET r == process_pdf_file(env, f, output_format, convert_simplified, conv, w, pdfOut)
       IN  /\ pdf' = r.pdf
           /\ pdfOut' = r.out
           /\ pdfLast' = PdfCall("process_pdf_file", r.ret, f.name, output_format,
                                 r.nparas, <<>>)
    /\ UNCHANGED <<env, epubVars, conv, convVars, detVars, opfVars, mdVars, guiVars>>

ConvertFile(f, output_format, w) ==
    /\ PdfStep
    /\ LET r == convert_file(env, f, output_format, w, pdfOut)
       IN  /\ pdf' = r.pdf
           /\ pdfOut' = r.out
           /\ pdfLast' = PdfCall("convert_file", r.ret, f.name, output_format, r.nparas, <<>>)
    /\ UNCHANGED <<env, epubVars, conv, convVars, detVars, opfVars, mdVars, guiVars>>

----------------------------------------------------------------------------
(* The patch of _post_process_opf on one package document *)

\* The attributes of a spine start tag: toc or not, and at most one
\* page-progression-direction, in either order.
SpineAttrs ==
    {<<>>, <<"toc">>}
    \cup {<<a>> : a \in PpdAttrs}
    \cup {<<"toc", a>> : a \in PpdAttrs}
    \cup {<<a, "toc">> : a \in PpdAttrs}

OpfDocs ==
    {pre \o <<"<spine">> \o attrs \o <<">", "x">> :
        pre \in UNION {[1..n -> {"x", "w"}] : n \in 0..MaxOpfText}, attrs \in SpineAttrs}

PatchOpf ==
    /\ nPatch < MaxPatch
    /\ nPatch' = nPatch + 1
    /\ opf' = patch_opf(opf)
    /\ UNCHANGED <<epubVars, conv, convVars, pdfVars, detVars, mdVars, guiVars>>

----------------------------------------------------------------------------
(* detect_chapters on pages that any caller may pass *)

\* Paragraph texts: one for each of the five chapter_patterns (the second in
\* upper case, which re.IGNORECASE accepts), and texts that match none.
DetTexts ==
    {<<"di", "n", "zhang">>, <<"CHAPTER", " ", "d">>, <<"di", "d", "jie">>,
     <<"d", ".", "a">>, <<"n", "dun">>, <<"Chapter", "a">>, <<"A">>}

\* The flags a paragraph dict has before the call: each of 'is_chapter' and
\* 'is_title' is missing, False or True.
DetFlags == UNION {[D -> BOOLEAN] : D \in SUBSET {"is_chapter", "is_title"}}

DetParagraph(t, flags) ==
    [k \in {"text", "font_size"} \cup DOMAIN flags |->
        IF k = "text" THEN t
        ELSE IF k = "font_size" THEN DefaultFontSize
        ELSE flags[k]]

DetParagraphs == {DetParagraph(t, flags) : t \in DetTexts, flags \in DetFlags}

\* The paragraphs ps laid out on pages: a new page starts after paragraph i
\* for each i in cuts.
RECURSIVE PagesOf(_, _, _, _)
PagesOf(ps, cuts, i, acc) ==
    IF i > Len(ps) THEN acc
    ELSE IF i = 1 \/ (i - 1) \in cuts
    THEN PagesOf(ps, cuts, i + 1,
                 Append(acc, [page_number |-> Len(acc) + 1, paragraphs |-> <<ps[i]>>]))
    ELSE PagesOf(ps, cuts, i + 1,
                 [acc EXCEPT ![Len(acc)].paragraphs = Append(@, ps[i])])

\* The texts of a one-page PDF.
PageTexts ==
    UNION {[1..n -> {"a", "A", "a48", "A98", ".", "nl2", "d"}] : n \in 0..MaxPageText}

\* pages_content = self.extract_text_with_structure(), on a one-page PDF
\* with the text t
ExtractPagesStructured(t) ==
    /\ pages = <<>> /\ nDet = 0 /\ nMd = 0
    /\ pages' = StructPages(<<Page(t)>>, 0)
    /\ UNCHANGED <<nDet, epubVars, conv, convVars, pdfVars, opfVars, mdVars, guiVars>>

\* pages_content = self.extract_with_pdfplumber(input_path), on the same
ExtractPagesPlumber(t) ==
    /\ pages = <<>> /\ nDet = 0 /\ nMd = 0
    /\ pages' = PlumberPages(<<Page(t)>>, 0)
    /\ UNCHANGED <<nDet, epubVars, conv, convVars, pdfVars, opfVars, mdVars, guiVars>>

\* pages_content = detect_chapters(pages_content)
DetectChapters ==
    /\ nDet < MaxDet
    /\ nDet' = nDet + 1
    /\ pages' = detect_chapters(pages)
    /\ UNCHANGED <<epubVars, conv, convVars, pdfVars, opfVars, mdVars, guiVars>>

----------------------------------------------------------------------------
(* MarkdownGenerator on chapter lists *)

(***************************************************************************)
(* The content of an EPUB chapter is a sequence of tokens: the tags        *)
(* "<h2>", "</h2>", "<p>", "</p>", a letter "a" and a blank " ".  In the   *)
(* Markdown text "## " is the mark of a level-2 heading, and "nl2" a blank *)
(* line, as in the PDF texts.                                              *)
(***************************************************************************)
HtmlTags == {"<h2>", "</h2>", "<p>", "</p>"}

\* The least index of tok in t, 0 when there is none.
RECURSIVE IndexOf(_, _, _)
IndexOf(t, tok, i) ==
    IF i > Len(t) THEN 0 ELSE IF t[i] = tok THEN i ELSE IndexOf(t, tok, i + 1)

\* re.sub(r'<open[^>]*>(.*?)</open>', pre \1 post, t)
RECURSIVE SubPairs(_, _, _, _, _)
SubPairs(t, open, shut, pre, post) ==
    IF t = <<>> THEN <<>>
    ELSE LET j == IndexOf(t, shut, 2)
         IN  IF Head(t) = open /\ j > 0
             THEN pre \o SubSeq(t, 2, j - 1) \o post
                  \o SubPairs(SubSeq(t, j + 1, Len(t)), open, shut, pre, post)
             ELSE <<Head(t)>> \o SubPairs(Tail(t), open, shut, pre, post)

\* re.sub(r'<[^>]+>', '', content)
StripTags(t) == SelectSeq(t, LAMBDA tok : tok \notin HtmlTags)

\* MarkdownGenerator._html_to_markdown
html_to_markdown(html_content) ==
    LET headed == SubPairs(html_content, "<h2>", "</h2>", <<"## ">>, <<>>)
        parted == SubPairs(headed, "<p>", "</p>", <<>>, <<"nl2">>)
    IN  strip(StripTags(parted))

\* MarkdownGenerator._generate_complete_epub_file: the title, then every
\* chapter that has content, its markup made Markdown.
EpubChapterBlocks(chapter) ==
    IF strip(chapter.content) = <<>> THEN <<>>
    ELSE <<Block(2, chapter.title), Block(0, html_to_markdown(chapter.content))>>

generate_complete_epub_file(chs, title) ==
    <<Block(1, title)>> \o ConcatAll([i \in 1..Len(chs) |-> EpubChapterBlocks(chs[i])])

\* Chapter dicts: two titles, and contents that are empty, blank, text, and
\* markup with a heading in it.
MdTitles == {<<"a">>, <<"A">>}
MdContents ==
    {<<>>, <<" ">>, <<"a">>, <<"<h2>", "a", "</h2>">>,
     <<"<p>", "a", "</p>", "<h2>", "A", "</h2>">>, <<"a", "<h2>", "a", "</h2>">>}
MdChapter == [title : MdTitles, content : MdContents]
BookTitle == <<"A", " ", "a">>

(***************************************************************************)
(* A file name is a sequence of runs [ch, n]: n times the character ch,    *)
(* where ch is a letter "a", the unsafe character "/", a blank " ", ".",   *)
(* "_", or the word "untitled" (eight letters; n = 1).                     *)
(***************************************************************************)
Chars(ch, n) == [ch |-> ch, n |-> n]
UnsafeChars == {"/"}
NameLimit == 50
Untitled == <<Chars("untitled", 1)>>

CharLen(ch) == IF ch = "untitled" THEN 8 ELSE 1
RECURSIVE NameLen(_)
NameLen(t) == IF t = <<>> THEN 0 ELSE CharLen(Head(t).ch) * Head(t).n + NameLen(Tail(t))

\* re.sub(r'[<>:"/\\|?*]', '_', filename)
SubUnsafe(t) ==
    [i \in 1..Len(t) |-> IF t[i].ch \in UnsafeChars THEN Chars("_", t[i].n) ELSE t[i]]

\* re.sub(r'\s+', '_', safe_name)
RECURSIVE SubSpace(_, _)
SubSpace(t, inSpace) ==
    IF t = <<>> THEN <<>>
    ELSE IF Head(t).ch \in Blank
    THEN (IF inSpace THEN <<>> ELSE <<Chars("_", 1)>>) \o SubSpace(Tail(t), TRUE)
    ELSE <<Head(t)>> \o SubSpace(Tail(t), FALSE)

\* safe_name.strip('._')
RECURSIVE StripDots(_)
StripDots(t) ==
    IF t /= <<>> /\ Head(t).ch \in {".", "_"} THEN StripDots(Tail(t))
    ELSE IF t /= <<>> /\ t[Len(t)].ch \in {".", "_"} THEN StripDots(SubSeq(t, 1, Len(t) - 1))
    ELSE t

\* safe_name[:k]
RECURSIVE Truncate(_, _)
Truncate(t, k) ==
    IF t = <<>> \/ k = 0 THEN <<>>
    ELSE LET len == CharLen(Head(t).ch) * Head(t).n
         IN  IF len <= k THEN <<Head(t)>> \o Truncate(Tail(t), k - len)
             ELSE <<Chars(IF Head(t).ch = "untitled" THEN "a" ELSE Head(t).ch, k)>>

\* A variant that leaves the whitespace of the name as it is.
sanitize_filename_KeepSpace(filename) ==
    LET safe_name == StripDots(SubUnsafe(filename))
        cut == IF NameLen(safe_name) > NameLimit THEN Truncate(safe_name, NameLimit)
               ELSE safe_name
    IN  IF cut = <<>> THEN Untitled ELSE cut

\* MarkdownGenerator._sanitize_filename
sanitize_filename(filename) ==
    LET safe_name == StripDots(SubSpace(SubUnsafe(filename), FALSE))
        cut == IF NameLen(safe_name) > NameLimit THEN Truncate(safe_name, NameLimit)
               ELSE safe_name
    IN  IF cut = <<>> THEN Untitled ELSE cut

\* File names: runs of one character, or of 49 or 51 of them.
RunLengths == {1, 49, 51}
NameRuns ==
    {Chars(ch, n) : ch \in {"a", "/", " ", ".", "_"}, n \in RunLengths} \cup {Chars("untitled", 1)}

SanitizeFilename ==
    /\ nMd = 0
    /\ nMd' = 1
    /\ fname' = [fname EXCEPT !.safe_name = sanitize_filename(fname.filename)]
    /\ UNCHANGED <<mdChapters, mdOut, epubVars, conv, convVars, pdfVars, detVars, opfVars,
                   guiVars>>

\* all_content = self._merge_pdf_pages(pages_content)
\* chapters = self._detect_pdf_chapters(all_content)
AssembleChapters ==
    /\ nMd = 0
    /\ nMd' = 1
    /\ mdChapters' = detect_pdf_chapters(merge_pdf_pages(pages), <<>>, <<>>)
    /\ UNCHANGED <<mdOut, fname, epubVars, conv, convVars, pdfVars, detVars, opfVars,
                   guiVars>>

GenerateCompleteEpubFile ==
    /\ nMd = 0
    /\ nMd' = 1
    /\ mdOut' = generate_complete_epub_file(mdChapters, BookTitle)
    /\ UNCHANGED <<mdChapters, fname, epubVars, conv, convVars, pdfVars, detVars, opfVars,
                   guiVars>>

GenerateCompletePdfFile ==
    /\ nMd = 0
    /\ nMd' = 1
    /\ mdOut' = generate_complete_pdf_file(mdChapters, BookTitle)
    /\ UNCHANGED <<mdChapters, fname, epubVars, conv, convVars, pdfVars, detVars, opfVars,
                   guiVars>>

----------------------------------------------------------------------------
(* EpubProcessor.extract_content_for_markdown *)

\* The index of the first start tag of t whose name is in names, 0 when
\* there is none: soup.find(names).
RECURSIVE FindTag(_, _, _)
FindTag(t, names, i) ==
    IF i + 2 > Len(t) THEN 0
    ELSE IF t[i] = "<" /\ t[i + 1] \in names /\ t[i + 2] = ">" THEN i
    ELSE FindTag(t, names, i + 1)

\* tag.get_text().strip() for the element that starts at i.
TagText(t, i) ==
    LET j == IndexOf(t, "<", i + 3)
    IN  strip(SubSeq(t, i + 3, IF j = 0 THEN Len(t) ELSE j - 1))

TitleTags == {"h1", "h2", "title"}      \* soup.find(['h1', 'h2', 'title'])

\* The chapter dict of one document item.
ExtractedChapter(item) ==
    LET content == Str(BeautifulSoup(item.content))
        title_tag == FindTag(content, TitleTags, 1)
    IN  [title |-> IF title_tag /= 0 THEN TagText(content, title_tag) ELSE item.name,
         content |-> content,
         file_name |-> item.name]

\* The loop over self.book.get_items(): BeautifulSoup raises on a content
\* that is None, and the chapters made so far are returned.
RECURSIVE ExtractItems(_, _, _)
ExtractItems(items, i, acc) ==
    IF i > Len(items) THEN acc
    ELSE IF items[i].type /= "doc" THEN ExtractItems(items, i + 1, acc)
    ELSE IF items[i].content = NoneC THEN acc
    ELSE ExtractItems(items, i + 1, Append(acc, ExtractedChapter(items[i])))

extract_content_for_markdown(b) ==
    IF ~b.loaded THEN <<>> ELSE ExtractItems(b.items, 1, <<>>)

\* Content documents with headings: a title in the head and an h1 in the
\* body; a paragraph and then an h2; an h3 and nothing above it.
DocTitled ==
    TagHtml \o TagHead \o <<"<", "title", ">", "a", "<", "/title", ">">> \o TagHeadEnd
    \o <<"<", "h1", ">", "c", "<", "/h1", ">">> \o TagHtmlEnd
DocH2 == <<"<", "p", ">", "a", "<", "/p", ">", "<", "h2", ">", " ", "c", "<", "/h2", ">">>
DocH3 == TagHtml \o <<"<", "h3", ">", "a", "<", "/h3", ">">> \o TagHtmlEnd

BookHeaded == [items |-> <<Item(TRUE, 1, "doc", DocH2), Item(TRUE, 2, "other", <<"a">>),
                            Item(TRUE, 3, "doc", DocPlain)>>,
               direction |-> "none"]
BookTitled == [items |-> <<Item(TRUE, 1, "doc", DocTitled)>>, direction |-> "none"]
BookDeep == [items |-> <<Item(TRUE, 1, "doc", DocH3), Item(TRUE, 2, "doc", DocH2)>>,
             direction |-> "rtl"]

MdSources == Sources \cup {BookHeaded, BookTitled, BookDeep}

\* chapters = epub_processor.extract_content_for_markdown()
ExtractContentForMarkdown ==
    /\ nMd = 0
    /\ nMd' = 1
    /\ mdChapters' = extract_content_for_markdown(book)
    /\ UNCHANGED <<mdOut, fname, epubVars, conv, convVars, pdfVars, detVars, opfVars,
                   guiVars>>

----------------------------------------------------------------------------
(* MainWindow: the desktop caller and its conversion threads *)

(***************************************************************************)
(* gui.convert, gui.cancel   the state of the two buttons                  *)
(* gui.pc[t]                 where conversion thread t is in               *)
(*                           perform_conversion ("unborn" before it is     *)
(*                           started)                                      *)
(* gui.after                 callbacks queued with root.after and not run  *)
(* gui.book, gui.stats       the request whose package, and whose          *)
(*                           statistics, self.epub_processor holds (0:     *)
(*                           none)                                         *)
(* gui.found[t]              history: what the processor held when t was   *)
(*                           started                                       *)
(***************************************************************************)
Threads == 1..MaxThreads
Working == {"load", "modify", "save"}

NewWindow ==
    [convert |-> "normal", cancel |-> "disabled",
     pc |-> [t \in Threads |-> "unborn"],
     after |-> 0, book |-> 0, stats |-> 0,
     found |-> [t \in Threads |-> [book |-> 0, stats |-> 0]]]

set_conversion_state(g, converting) ==
    IF converting THEN [g EXCEPT !.convert = "disabled", !.cancel = "normal"]
    ELSE [g EXCEPT !.convert = "normal", !.cancel = "disabled"]

\* The convert button is pressed: start_conversion, with valid inputs.
StartConversion(t) ==
    /\ gui.convert = "normal"
    /\ gui.pc[t] = "unborn"
    /\ \A u \in Threads : u < t => gui.pc[u] /= "unborn"
    /\ gui' = [set_conversion_state(gui, TRUE) EXCEPT
                  !.pc[t] = "load", !.found[t] = [book |-> gui.book, stats |-> gui.stats]]
    /\ UNCHANGED <<epubVars, conv, convVars, pdfVars, detVars, opfVars, mdVars>>

\* The cancel button is pressed: cancel_conversion.
CancelConversion ==
    /\ gui.cancel = "normal"
    /\ gui' = set_conversion_state(gui, FALSE)
    /\ UNCHANGED <<epubVars, conv, convVars, pdfVars, detVars, opfVars, mdVars>>

\* perform_conversion in thread t: self.epub_processor.load_epub(input_path)
ThreadLoad(t, ok) ==
    /\ gui.pc[t] = "load"
    /\ gui' = IF ok THEN [gui EXCEPT !.pc[t] = "modify", !.book = t]
              ELSE [gui EXCEPT !.pc[t] = "finally"]
    /\ UNCHANGED <<epubVars, conv, convVars, pdfVars, detVars, opfVars, mdVars>>

\* self.epub_processor.modify_reading_direction_and_font(): counted tells
\* whether a document was converted and added to the statistics.
ThreadModify(t, ok, counted) ==
    /\ gui.pc[t] = "modify"
    /\ gui' = [gui EXCEPT !.pc[t] = IF ok THEN "save" ELSE "finally",
                          !.stats = IF counted THEN t ELSE @]
    /\ UNCHANGED <<epubVars, conv, convVars, pdfVars, detVars, opfVars, mdVars>>

\* self.epub_processor.save_epub(temp_epub_path), and what follows it
ThreadSave(t) ==
    /\ gui.pc[t] = "save"
    /\ gui' = [gui EXCEPT !.pc[t] = "finally"]
    /\ UNCHANGED <<epubVars, conv, convVars, pdfVars, detVars, opfVars, mdVars>>

\* finally: self.root.after(0, lambda: self.set_conversion_state(False))
ThreadFinally(t) ==
    /\ gui.pc[t] = "finally"
    /\ gui' = [gui EXCEPT !.pc[t] = "done", !.after = @ + 1]
    /\ UNCHANGED <<epubVars, conv, convVars, pdfVars, detVars, opfVars, mdVars>>

\* The main loop runs a queued callback.
AfterCallback ==
    /\ gui.after > 0
    /\ gui' = [set_conversion_state(gui, FALSE) EXCEPT !.after = @ - 1]
    /\ UNCHANGED <<epubVars, conv, convVars, pdfVars, detVars, opfVars, mdVars>>

----------------------------------------------------------------------------
(* The parts that a specification leaves alone *)

IdlePdf ==
    /\ env = [pypdf2 |-> TRUE, pdfplumber |-> TRUE]
    /\ pdf = NoPdf
    /\ pdfOut = PdfNoFile
    /\ pdfLast = NoPdfCall
    /\ nPdf = 0

IdleDet == pages = <<>> /\ nDet = 0

IdleOpf == opf = <<>> /\ nPatch = 0

IdleMd == mdChapters = <<>> /\ mdOut = <<>> /\ nMd = 0 /\ fname = <<>>

IdleGui == gui = <<>>

IdleEpub ==
    /\ book = NoBook
    /\ stats = ZeroStats
    /\ out = NoFile
    /\ file = [items |-> <<>>, direction |-> "none"]
    /\ phase = "Unloaded"
    /\ last = Call("init", TRUE)
    /\ nOps = 0

IdleConv == conv = TRUE /\ text = <<>> /\ res = NoRes

----------------------------------------------------------------------------
(* Specifications *)

\* One EpubProcessor instance, any calls in any order.
InitEpub ==
    /\ book = NoBook
    /\ stats = ZeroStats
    /\ out = NoFile
    /\ file \in Sources
    /\ phase = "Unloaded"
    /\ last = Call("init", TRUE)
    /\ nOps = 0
    /\ conv \in BOOLEAN
    /\ text = <<>>
    /\ res = NoRes
    /\ IdlePdf /\ IdleDet /\ IdleOpf /\ IdleMd /\ IdleGui

NextEpub ==
    \/ \E ok \in BOOLEAN : load_epub(ok)
    \/ \E c \in BOOLEAN, f \in Fails(book.items) : modify_reading_direction_and_font(c, f)
    \/ \E w \in WriteOutcomes, p \in PatchOutcomes : save_epub(w, p)

Spec == InitEpub /\ [][NextEpub]_vars

\* The converter's operations on every text of the alphabet.
InitConv ==
    /\ book = NoBook
    /\ stats = ZeroStats
    /\ out = NoFile
    /\ file = [items |-> <<>>, direction |-> "none"]
    /\ phase = "Unloaded"
    /\ last = Call("init", TRUE)
    /\ nOps = 0
    /\ conv \in BOOLEAN
    /\ text \in Texts
    /\ res = NoRes
    /\ IdlePdf /\ IdleDet /\ IdleOpf /\ IdleMd /\ IdleGui

NextConv ==
    \/ ConvertToTraditional
    \/ AutoConvertIfSimplified
    \/ \E r \in BOOLEAN : ConvertHtmlContent(r)

SpecConv == InitConv /\ [][NextConv]_vars

\* get_conversion_stats on every pair of short texts.
InitStats ==
    /\ book = NoBook
    /\ stats = ZeroStats
    /\ out = NoFile
    /\ file = [items |-> <<>>, direction |-> "none"]
    /\ phase = "Unloaded"
    /\ last = Call("init", TRUE)
    /\ nOps = 0
    /\ conv = TRUE
    /\ text \in StatTexts
    /\ res = NoRes
    /\ IdlePdf /\ IdleDet /\ IdleOpf /\ IdleMd /\ IdleGui

NextStats == \E converted \in StatTexts : GetConversionStats(converted)

SpecStats == InitStats /\ [][NextStats]_vars

\* One PdfProcessor, any calls in any order, and the conversions of the two
\* web applications.
InitPdf ==
    /\ IdleEpub /\ IdleConv /\ IdleDet /\ IdleOpf /\ IdleMd /\ IdleGui
    /\ env \in [pypdf2 : BOOLEAN, pdfplumber : BOOLEAN]
    /\ pdf = NoPdf
    /\ pdfOut = PdfNoFile
    /\ pdfLast = NoPdfCall
    /\ nPdf = 0

NextPdf ==
    \/ \E f \in PdfSources : LoadPdf(f)
    \/ ExtractSimpleText
    \/ ExtractTextWithStructure
    \/ Close
    \/ \E f \in PdfSources, w \in FileOutcomes : PdfToMarkdown(f, w)
    \/ \E f \in PdfSources, fmt \in OutputFormats, c \in BOOLEAN, w \in FileOutcomes :
          ProcessPdfFile(f, fmt, c, w)
    \/ \E f \in PdfSources, fmt \in OutputFormats, w \in FileOutcomes : ConvertFile(f, fmt, w)

SpecPdf == InitPdf /\ [][NextPdf]_vars

\* The patch applied, and applied again, to every package document.
InitOpf ==
    /\ IdleEpub /\ IdleConv /\ IdlePdf /\ IdleDet /\ IdleMd /\ IdleGui
    /\ opf \in OpfDocs
    /\ nPatch = 0

NextOpf == PatchOpf

SpecOpf == InitOpf /\ [][NextOpf]_vars

\* detect_chapters applied, and applied again, to every list of pages.
InitDetect ==
    /\ IdleEpub /\ IdleConv /\ IdlePdf /\ IdleOpf /\ IdleMd /\ IdleGui
    /\ \E n \in 0..MaxParas : \E ps \in [1..n -> DetParagraphs] :
          \E cuts \in SUBSET (1..(n - 1)) : pages = PagesOf(ps, cuts, 1, <<>>)
    /\ nDet = 0

NextDetect == DetectChapters

SpecDetect == InitDetect /\ [][NextDetect]_vars

\* The chapters made of every list of pages.
InitAssemble ==
    /\ IdleEpub /\ IdleConv /\ IdlePdf /\ IdleOpf /\ IdleMd /\ IdleGui
    /\ \E n \in 0..MaxParas : \E ps \in [1..n -> DetParagraphs] :
          \E cuts \in SUBSET (1..(n - 1)) : pages = PagesOf(ps, cuts, 1, <<>>)
    /\ nDet = 0

NextAssemble == AssembleChapters

SpecAssemble == InitAssemble /\ [][NextAssemble]_vars

\* One EpubProcessor: loads, modifications, and the extraction of its
\* chapters.
InitExtract ==
    /\ book = NoBook
    /\ stats = ZeroStats
    /\ out = NoFile
    /\ file \in MdSources
    /\ phase = "Unloaded"
    /\ last = Call("init", TRUE)
    /\ nOps = 0
    /\ conv \in BOOLEAN
    /\ text = <<>>
    /\ res = NoRes
    /\ IdlePdf /\ IdleDet /\ IdleOpf /\ IdleMd /\ IdleGui

NextExtract ==
    \/ \E ok \in BOOLEAN : load_epub(ok)
    \/ \E c \in BOOLEAN, f \in Fails(book.items) : modify_reading_direction_and_font(c, f)
    \/ ExtractContentForMarkdown

SpecExtract == InitExtract /\ [][NextExtract]_vars

\* A one-page PDF on its way to chapters: extracted on either path, run
\* through detect_chapters, assembled.
InitHeadings ==
    /\ IdleEpub /\ IdleConv /\ IdlePdf /\ IdleDet /\ IdleOpf /\ IdleMd /\ IdleGui

NextHeadings ==
    \/ \E t \in PageTexts : ExtractPagesStructured(t)
    \/ \E t \in PageTexts : ExtractPagesPlumber(t)
    \/ DetectChapters
    \/ AssembleChapters

SpecHeadings == InitHeadings /\ [][NextHeadings]_vars

\* One MainWindow, the user at its buttons, and its conversion threads.
InitGui ==
    /\ IdleEpub /\ IdleConv /\ IdlePdf /\ IdleDet /\ IdleOpf /\ IdleMd
    /\ gui = NewWindow

NextGui ==
    \/ \E t \in Threads : StartConversion(t)
    \/ CancelConversion
    \/ \E t \in Threads, ok \in BOOLEAN : ThreadLoad(t, ok)
    \/ \E t \in Threads, ok \in BOOLEAN, counted \in BOOLEAN : ThreadModify(t, ok, counted)
    \/ \E t \in Threads : ThreadSave(t)
    \/ \E t \in Threads : ThreadFinally(t)
    \/ AfterCallback

SpecGui == InitGui /\ [][NextGui]_vars

\* The sanitizer on every short file name.
InitSanitize ==
    /\ IdleEpub /\ IdleConv /\ IdlePdf /\ IdleDet /\ IdleOpf /\ IdleGui
    /\ mdChapters = <<>>
    /\ mdOut = <<>>
    /\ nMd = 0
    /\ \E n \in 0..MaxRuns : \E f \in [1..n -> NameRuns] :
          fname = [filename |-> f, safe_name |-> <<>>]

NextSanitize == SanitizeFilename

SpecSanitize == InitSanitize /\ [][NextSanitize]_vars

\* The Markdown file made of every short chapter list.
InitMd ==
    /\ IdleEpub /\ IdleConv /\ IdlePdf /\ IdleDet /\ IdleOpf /\ IdleGui
    /\ \E n \in 0..MaxChapters : mdChapters \in [1..n -> MdChapter]
    /\ mdOut = <<>>
    /\ nMd = 0
    /\ fname = <<>>

NextMd ==
    \/ GenerateCompleteEpubFile
    \/ GenerateCompletePdfFile

SpecMd == InitMd /\ [][NextMd]_vars

----------------------------------------------------------------------------
(* Claims about the EpubProcessor state machine *)

\* A step that is a call of op.
CallOf(op) == nOps' = nOps + 1 /\ last'.op = op

Rank(ph) ==
    CASE ph = "Unloaded" -> 0
      [] ph = "Loaded" -> 1
      [] ph = "Modified" -> 2
      [] OTHER -> 3

Docs(items) == {i \in 1..Len(items) : items[i].type = "doc"}

\* C1: every call that returns true moves the instance strictly forward
\* through Unloaded, Loaded, Modified, Saved: it neither goes back to an
\* earlier state nor repeats the transition taken last.
C1_ForwardOnly ==
    [][(nOps' = nOps + 1 /\ last'.ret) => Rank(phase') > Rank(phase)]_vars

\* C2: a save on an instance on which no modify has succeeded since the last
\* successful load returns false and leaves the output path as it was.
C2_SaveRequiresModified ==
    [][(CallOf("save") /\ phase \in {"Unloaded", "Loaded"})
         => (~last'.ret /\ out' = out)]_vars

\* C3: after a load that returned false the instance holds no package.
C3_FailedLoadRetainsNothing ==
    (last.op = "load" /\ ~last.ret) => ~book.loaded

\* The manifest its is the manifest orig and one more item, the stylesheet.
PlusOneStylesheet(orig, its) ==
    /\ Len(its) = Len(orig) + 1
    /\ \A i \in 1..Len(orig) : its[i].name = orig[i].name /\ its[i].type = orig[i].type
    /\ its[Len(its)].uid = StyleId
    /\ its[Len(its)].name = StyleName
    /\ its[Len(its)].type = "style"

\* C4: after a successful save the manifest is the manifest of the source and
\* exactly one new stylesheet item, and every content document has exactly
\* one stylesheet link more than it had in the source.
C4_OneStylesheetOneLink ==
    (last.op = "save" /\ last.ret) =>
        /\ PlusOneStylesheet(file.items, book.items)
        /\ \A i \in Docs(file.items) :
              LinkCount(book.items[i].content) = LinkCount(file.items[i].content) + 1

\* C5: when the processing of one document fails at some step, modify returns
\* true, that document keeps its content, and every other document gets its
\* link.
C5_PerItemIsolation ==
    [][(CallOf("modify") /\ last'.fail /= NoFail)
         => /\ last'.ret
            /\ book'.items[last'.fail.idx].content = book.items[last'.fail.idx].content
            /\ \A j \in Docs(book.items) \ {last'.fail.idx} :
                  LinkCount(book'.items[j].content) = LinkCount(book.items[j].content) + 1]_vars

C7_UniqueIds ==
    (last.op = "save" /\ last.ret) =>
        /\ \A i \in 1..Len(book.items) : book.items[i].uid /= NoId
        /\ \A i, j \in 1..Len(book.items) : i /= j => book.items[i].uid /= book.items[j].uid

RECURSIVE SumSeq(_)
SumSeq(q) == IF q = <<>> THEN 0 ELSE Head(q) + SumSeq(Tail(q))

\* C10 as stated: a modify(TRUE) on a freshly loaded package leaves as totals
\* the sums, over all documents, of get_conversion_stats(before, after).
C10_StatsSumAllDocs ==
    [][(/\ CallOf("modify") /\ last'.ret /\ last'.convert /\ last'.fail = NoFail
        /\ phase = "Loaded" /\ book.items = file.items)
       => LET S(i) == get_conversion_stats(Before(book.items[i]), book'.items[i].content)
              total == [i \in 1..Len(book.items) |->
                          IF book.items[i].type = "doc" THEN S(i).total_chars ELSE 0]
              changed == [i \in 1..Len(book.items) |->
                          IF book.items[i].type = "doc" THEN S(i).changed_chars ELSE 0]
          IN  /\ stats'.total_chars = SumSeq(total)
              /\ stats'.changed_chars = SumSeq(changed)]_vars

\* The totals that the documents reported as converted add to st:
\* get_conversion_stats(before, converted) of each, in manifest order.
RECURSIVE ConvertedStats(_, _, _, _, _)
ConvertedStats(its, i, cv, f, st) ==
    IF i > Len(its) THEN st
    ELSE IF its[i].type /= "doc" THEN ConvertedStats(its, i + 1, cv, f, st)
    ELSE LET b == Before(its[i])
             r == convert_html_content(b, cv, f.idx = i /\ f.step = "convert")
         IN  IF r.changed
             THEN LET s == get_conversion_stats(b, r.text)
                  IN  ConvertedStats(its, i + 1, cv, f,
                          [total_chars |-> st.total_chars + s.total_chars,
                           changed_chars |-> st.changed_chars + s.changed_chars])
             ELSE ConvertedStats(its, i + 1, cv, f, st)

\* C10, amended: a modify(TRUE) that returns true adds to the totals the
\* sums, over the documents that convert_html_content reports as converted,
\* of get_conversion_stats(before, converted).
C10_StatsSumConverted ==
    [][(CallOf("modify") /\ last'.ret /\ last'.convert)
        => LET a == ConvertedStats(book.items, 1, conv, last'.fail,
                                   [total_chars |-> stats.total_chars,
                                    changed_chars |-> stats.changed_chars])
           IN  /\ stats'.total_chars = a.total_chars
               /\ stats'.changed_chars = a.changed_chars]_vars

\* C10: the book of three chapters was modified with conversion: two chapters
\* were converted and counted, the plain one was not.
C10_Witness ==
    /\ last.op = "modify" /\ last.ret /\ last.convert
    /\ file = BookMixed
    /\ book.items[2].content = Before(file.items[2])
    /\ stats.total_chars = Len(Before(file.items[1])) + Len(Before(file.items[3]))
    /\ stats.changed_chars = 2

----------------------------------------------------------------------------
(* Claims about the converter *)

\* Position i of t lies in a tag: from a "<" to the first ">" after it.
InTag(t, i) ==
    \E j \in 1..i, k \in i..Len(t) :
        t[j] = "<" /\ t[k] = ">" /\ \A m \in j..(k-1) : t[m] /= ">"

\* No character of the detection set occurs in a text node of t.
NoSimplifiedInTextNodes(t) ==
    \A i \in 1..Len(t) : ~InTag(t, i) => t[i] \notin simplified_chars

\* C8: convert_html_content changes no character of a tag: the output has the
\* length of the input and differs from it in text nodes only.
C8_MarkupPreserved ==
    res.op = "convert_html_content" =>
        /\ Len(res.text) = Len(text)
        /\ \A i \in 1..Len(text) : InTag(text, i) => res.text[i] = text[i]

\* C9: auto_convert_if_simplified and convert_html_content return their input
\* with changed = FALSE when detection is negative (for markup: no character
\* of the detection set in a text node) or when there is no converter, and
\* convert_to_traditional returns its input when there is no converter.
C9_NoOpWhenNothingToConvert ==
    /\ (res.op = "auto_convert_if_simplified" /\ (~is_simplified_chinese(text) \/ ~conv))
          => (res.text = text /\ ~res.changed)
    /\ (res.op = "convert_html_content" /\ (NoSimplifiedInTextNodes(text) \/ ~conv))
          => (res.text = text /\ ~res.changed)
    /\ (res.op = "convert_to_traditional" /\ ~conv) => res.text = text

\* C9: markup with a Simplified character in a tag and none in its text node
\* went through convert_html_content, with a converter, and came back as it was.
C9_Witness ==
    /\ res.op = "convert_html_content" /\ conv /\ ~res.raises
    /\ NoSimplifiedInTextNodes(text)
    /\ FindAllText(text, 1) /= <<>>
    /\ \E i \in 1..Len(text) : InTag(text, i) /\ text[i] = "s"
    /\ res.text = text /\ ~res.changed

----------------------------------------------------------------------------
(* Claims about get_conversion_stats *)

\* C11: get_conversion_stats reports a change rate of 0 when the two texts
\* are the same, and total_chars = len(original) whenever the two texts have
\* the same length, the empty text included.
C11_StatsOfEqualTexts ==
    res.op = "get_conversion_stats" =>
        /\ text = res.text => res.stats.change_rate = 0
        /\ Len(text) = Len(res.text) => res.stats.total_chars = Len(text)

\* C11: a text of two characters or more was compared with itself.
C11_Witness ==
    /\ res.op = "get_conversion_stats"
    /\ text = res.text /\ Len(text) >= 2
    /\ res.stats.total_chars = Len(text)
    /\ res.stats.change_rate = 0

----------------------------------------------------------------------------
(* Claims about the PdfProcessor and the PDF conversions *)

ConversionOps == {"pdf_to_markdown", "process_pdf_file", "convert_file"}

\* A step that is a call on the PdfProcessor, or a conversion.
PdfCallOf(ops) == nPdf' = nPdf + 1 /\ pdfLast'.op \in ops

\* C12: when a conversion of a PDF has returned, with success or with any
\* failure, the processor holds no document handle.
C12_HandleReleased ==
    pdfLast.op \in ConversionOps => pdf.document = "None"

\* C13: when load_pdf has returned false the processor holds no document
\* handle, neither one that the failed call opened nor one of an earlier load.
C13_FailedLoadHoldsNoHandle ==
    (pdfLast.op = "load_pdf" /\ ~pdfLast.ret) => pdf.document = "None"

\* The file can be loaded and the extraction finds a paragraph in it.
Extractable(f) ==
    /\ f.opens /\ f.counts
    /\ \E i \in 1..Len(f.pages) : ~f.pages[i].raises /\ Paragraphs(f.pages[i].text) /= <<>>

\* C14: a conversion request for a loadable PDF with extractable paragraphs
\* and output format epub ends in success, with an EPUB as its output.
C14_PdfToEpubSucceeds ==
    (/\ pdfLast.op \in {"process_pdf_file", "convert_file"}
     /\ pdfLast.fmt = "epub"
     /\ env.pypdf2
     /\ Extractable(PdfNamed(pdfLast.file)))
    => pdfLast.ret /\ pdfOut.state = "epub"

\* C15: a conversion whose extraction yields no paragraph at all ends in a
\* failure and makes no output file, whatever the entry point.
C15_EmptyExtractionFails ==
    [][(PdfCallOf(ConversionOps) /\ pdfLast'.nparas = 0)
        => (~pdfLast'.ret /\ pdfOut' = pdfOut)]_vars

----------------------------------------------------------------------------
(* Claims about the output of save_epub and the patch of the package document *)

\* C16: a save that returns false leaves no file at the output path that the
\* call made or wrote in part: the path holds what it held before.
C16_NoPartialOutput ==
    [][(CallOf("save") /\ ~last'.ret) => out' = out]_vars

\* C17: a failure of the patch at any of its steps is not fatal: when save
\* returns true the output path holds the archive as it was serialized, or
\* that archive patched.
C17_PatchFailureKeepsArchive ==
    [][(CallOf("save") /\ last'.ret)
        => LET serialized == write_epub(book'.items, book.direction)
           IN  out' \in {serialized, post_process_opf(serialized, "ok")}]_vars

\* C18: the patch rewrites the archive with only the package document
\* changed: the entries are the same, in the same order, and every entry
\* other than the package document has the content it had.
C18_OnlyPackageDocumentChanged ==
    [][(CallOf("save") /\ last'.ret /\ out'.state = "archive")
        => LET before == write_epub(book'.items, book.direction).entries
               after == out'.entries
           IN  /\ Len(after) = Len(before)
               /\ \A i \in 1..Len(before) :
                     i <= Len(after) =>
                        /\ after[i].name = before[i].name
                        /\ before[i].name /= OpfName => after[i].content = before[i].content]_vars

\* The attributes of the spine start tag of a package document.
RECURSIVE SpineTag(_, _)
SpineTag(t, inSpine) ==
    IF t = <<>> THEN <<>>
    ELSE IF Head(t) = "<spine" THEN SpineTag(Tail(t), TRUE)
    ELSE IF Head(t) = ">" THEN SpineTag(Tail(t), FALSE)
    ELSE (IF inSpine THEN <<Head(t)>> ELSE <<>>) \o SpineTag(Tail(t), inSpine)

SpineLtrOnce(t) ==
    LET attrs == SpineTag(t, FALSE)
    IN  /\ Cardinality({i \in 1..Len(attrs) : attrs[i] \in PpdAttrs}) = 1
        /\ \E i \in 1..Len(attrs) : attrs[i] \in {"ppd_dq_ltr", "ppd_sq_ltr"}

\* C19: after the patch the spine carries page-progression-direction="ltr"
\* exactly once, whether the attribute was absent or present with any value
\* and in either kind of quotes; and patching the patched document changes
\* nothing.
C19_PatchSetsLtrOnce ==
    [][(nPatch' = nPatch + 1)
        => /\ SpineLtrOnce(opf')
           /\ nPatch >= 1 => opf' = opf]_vars

----------------------------------------------------------------------------
(* Claims about detect_chapters *)

\* The 'is_chapter' and 'is_title' entries of a paragraph dict, and of every
\* paragraph of every page.
FlagsOf(paragraph) ==
    [k \in DOMAIN paragraph \cap {"is_chapter", "is_title"} |-> paragraph[k]]
AllFlags(pages_content) ==
    [i \in 1..Len(pages_content) |->
        [j \in 1..Len(pages_content[i].paragraphs) |->
            FlagsOf(pages_content[i].paragraphs[j])]]

\* C20: detect_chapters is idempotent: whatever the pages and whatever flags
\* their paragraphs had, a second application leaves every is_chapter and
\* is_title flag as the first application left it.
C20_DetectIdempotent ==
    [][(nDet' = nDet + 1 /\ nDet >= 1) => AllFlags(pages') = AllFlags(pages)]_vars

\* Two applications to pages holding a heading, and a paragraph that is no
\* heading and was marked as a title before.
C20_Witness ==
    /\ nDet = 2
    /\ \E i \in 1..Len(pages) : \E j, k \in 1..Len(pages[i].paragraphs) :
          LET p == pages[i].paragraphs[j]
              q == pages[i].paragraphs[k]
          IN  /\ MatchesChapterPattern(p.text)
              /\ FlagsOf(p) = [is_chapter |-> TRUE, is_title |-> TRUE]
              /\ ~MatchesChapterPattern(q.text)
              /\ FlagsOf(q) = [is_chapter |-> FALSE, is_title |-> TRUE]

\* The texts of DetTexts that begin with a chapter pattern: a numbered chapter
\* and a numbered section in Chinese, "CHAPTER 1", "1.a" and an item of a
\* Chinese list.
HeadingTexts ==
    {<<"di", "n", "zhang">>, <<"CHAPTER", " ", "d">>, <<"di", "d", "jie">>,
     <<"d", ".", "a">>, <<"n", "dun">>}

\* C21: detect_chapters marks every paragraph that begins with a chapter
\* pattern, in any case, as chapter and title; every other paragraph gets
\* is_chapter False and keeps its is_title entry, or the lack of one; pages,
\* paragraphs and their texts stay as they were, in their order.
C21_DetectFlags ==
    [][(nDet' = nDet + 1) =>
        /\ Len(pages') = Len(pages)
        /\ \A i \in 1..Len(pages) :
            /\ Len(pages'[i].paragraphs) = Len(pages[i].paragraphs)
            /\ \A j \in 1..Len(pages[i].paragraphs) :
                LET before == pages[i].paragraphs[j]
                    after == pages'[i].paragraphs[j]
                IN  /\ after.text = before.text
                    /\ before.text \in HeadingTexts =>
                          FlagsOf(after) = [is_chapter |-> TRUE, is_title |-> TRUE]
                    /\ before.text \notin HeadingTexts =>
                          /\ after.is_chapter = FALSE
                          /\ ("is_title" \in DOMAIN after) = ("is_title" \in DOMAIN before)
                          /\ "is_title" \in DOMAIN before => after.is_title = before.is_title]_vars

\* One application to an upper-case English heading followed by a paragraph
\* that is no heading and has no is_title entry.
C21_Witness ==
    /\ nDet = 1
    /\ \E i \in 1..Len(pages) :
          /\ Len(pages[i].paragraphs) = 2
          /\ pages[i].paragraphs[1].text = <<"CHAPTER", " ", "d">>
          /\ FlagsOf(pages[i].paragraphs[1]) = [is_chapter |-> TRUE, is_title |-> TRUE]
          /\ pages[i].paragraphs[2].text = <<"Chapter", "a">>
          /\ FlagsOf(pages[i].paragraphs[2]) = [is_chapter |-> FALSE]

----------------------------------------------------------------------------
(* Claims about the MarkdownGenerator *)

\* The level-2 headings of a Markdown text: the rest of every line that
\* begins with "## ".
RECURSIVE LineHeadings(_, _)
LineHeadings(t, i) ==
    IF i > Len(t) THEN <<>>
    ELSE LET nl == IndexOf(t, "nl2", i)
             stop == IF nl = 0 THEN Len(t) + 1 ELSE nl
         IN  (IF t[i] = "## " THEN <<SubSeq(t, i + 1, stop - 1)>> ELSE <<>>)
             \o LineHeadings(t, stop + 1)

\* The level-2 headings of a Markdown file, in its order.
RECURSIVE OutHeadings(_)
OutHeadings(blocks) ==
    IF blocks = <<>> THEN <<>>
    ELSE LET b == Head(blocks)
         IN  (IF b.level = 2 THEN <<b.text>>
              ELSE IF b.level = 0 THEN LineHeadings(b.text, 1)
              ELSE <<>>)
             \o OutHeadings(Tail(blocks))

\* C22: the level-2 headings of the Markdown file are the titles of the
\* chapters it was made of, one for each chapter and in their order.
C22_HeadingsAreTitles ==
    nMd = 1 => OutHeadings(mdOut) = [i \in 1..Len(mdChapters) |-> mdChapters[i].title]

\* All paragraphs of the pages, in source order; whether one is flagged; the
\* indexes of the paragraphs that open a chapter; the text of the
\* paragraphs a..b as it stands in a chapter body.
AllParagraphs(pages_content) ==
    ConcatAll([i \in 1..Len(pages_content) |-> pages_content[i].paragraphs])
Flagged(paragraph) ==
    \/ "is_title" \in DOMAIN paragraph /\ paragraph.is_title
    \/ "is_chapter" \in DOMAIN paragraph /\ paragraph.is_chapter
Openers(ps) ==
    SelectSeq([i \in 1..Len(ps) |-> i], LAMBDA i : i = 1 \/ Flagged(ps[i]))
BodyOf(ps, a, b) ==
    ConcatAll([i \in 1..(b - a + 1) |-> Append(ps[a + i - 1].text, "nl2")])

\* C23: the chapters are opened by the flagged paragraphs, and by the first
\* paragraph in a chapter 'Introduction' when it is not flagged; the body of
\* a chapter is the paragraph that opens it and those up to the next opener;
\* so the bodies together hold every paragraph once and in source order.
C23_ChaptersFoldParagraphs ==
    nMd = 1 =>
        LET ps == AllParagraphs(pages)
            op == Openers(ps)
        IN  /\ Len(mdChapters) = Len(op)
            /\ \A k \in 1..Len(op) :
                  /\ mdChapters[k].content =
                        BodyOf(ps, op[k], IF k < Len(op) THEN op[k + 1] - 1 ELSE Len(ps))
                  /\ (mdChapters[k].title = <<"Introduction">>) <=> ~Flagged(ps[op[k]])
            /\ ConcatAll([k \in 1..Len(mdChapters) |-> mdChapters[k].content])
                  = BodyOf(ps, 1, Len(ps))

\* A paragraph without flags, then one marked as a title only: an
\* 'Introduction' and a chapter that the title opens.
C23_Witness ==
    /\ nMd = 1
    /\ Len(mdChapters) = 2
    /\ LET ps == AllParagraphs(pages)
       IN  /\ Len(ps) = 2
           /\ ~Flagged(ps[1])
           /\ FlagsOf(ps[2]) = [is_title |-> TRUE]
           /\ mdChapters[1].title = <<"Introduction">>
           /\ mdChapters[2].content = Append(ps[2].text, "nl2")

\* What the sanitizer has to keep out of a name, and the names that have
\* nothing else in them: cleaned, these are empty.
Forbidden == UnsafeChars \cup Blank
OnlyJunk(t) == \A i \in 1..Len(t) : t[i].ch \in Forbidden \cup {".", "_"}
NameIsSafe(t) ==
    /\ t /= <<>>
    /\ NameLen(t) <= NameLimit
    /\ \A i \in 1..Len(t) : t[i].ch \notin Forbidden

\* C24 as it is stated: the sanitized name is not empty, has at most 50
\* characters, none of them unsafe or whitespace, and it is the placeholder
\* exactly when the cleaned name would be empty.
C24_PlaceholderIffEmpty ==
    nMd = 1 =>
        /\ NameIsSafe(fname.safe_name)
        /\ (fname.safe_name = Untitled) <=> OnlyJunk(fname.filename)

\* The word "untitled" with nothing but characters that are cleaned away
\* around it.
CleansToUntitled(t) ==
    \E i \in 1..Len(t) :
        /\ t[i] = Chars("untitled", 1)
        /\ \A j \in 1..Len(t) : j /= i => t[j].ch \in Forbidden \cup {".", "_"}

\* C24, amended: the sanitized name is not empty, has at most 50 characters,
\* none of them unsafe or whitespace, and it is the placeholder exactly when
\* the cleaned name would be empty or is the placeholder's own text.
C24_PlaceholderIffEmptyOrSame ==
    nMd = 1 =>
        /\ NameIsSafe(fname.safe_name)
        /\ (fname.safe_name = Untitled)
              <=> (OnlyJunk(fname.filename) \/ CleansToUntitled(fname.filename))

\* The word "untitled" after an unsafe character: the cleaned name is not
\* empty, and it is the placeholder's text.
C24_Witness ==
    /\ nMd = 1
    /\ fname.filename = <<Chars("/", 1), Chars("untitled", 1)>>
    /\ fname.safe_name = Untitled

----------------------------------------------------------------------------
(* Claims about extract_content_for_markdown *)

\* The heading elements of a document, and the content documents of a
\* package in manifest order.
HeadingTags == {"h1", "h2", "h3"}
DocItems(items) == SelectSeq(items, LAMBDA item : item.type = "doc")

\* C25: the extraction gives one chapter for each content document, in
\* manifest order; its title is the text of the document's first heading
\* element, or the file name when it has none; its body is the document's
\* markup; the package is left as it was.
C25_ChapterPerDocument ==
    [][(nMd' = nMd + 1 /\ book.loaded) =>
        LET docs == DocItems(book.items)
        IN  /\ book' = book
            /\ Len(mdChapters') = Len(docs)
            /\ \A i \in 1..Len(docs) :
                  LET markup == Str(BeautifulSoup(docs[i].content))
                      h == FindTag(markup, HeadingTags, 1)
                  IN  /\ mdChapters'[i].content = markup
                      /\ mdChapters'[i].title =
                            IF h /= 0 THEN TagText(markup, h) ELSE docs[i].name]_vars

----------------------------------------------------------------------------
(* Claims about the heading heuristic *)

\* The heuristic for a title where there are no font sizes: short and in
\* upper case, or shorter and without a full stop at its end.
LooksLikeTitle(t) ==
    \/ TextLen(t) < ChapterLenLimit /\ isupper(t)
    \/ TextLen(t) < TitleLenLimit /\ t[Len(t)] /= "."

\* The chapter bodies that begin with the paragraph t.
OpensChapter(t) ==
    \E k \in 1..Len(mdChapters) :
        LET body == mdChapters[k].content
        IN  Len(body) > Len(t) /\ SubSeq(body, 1, Len(t) + 1) = Append(t, "nl2")

\* C26: on both extraction paths a paragraph is marked as a title exactly
\* when the heuristic says so, and such a paragraph opens a chapter of its
\* own when the chapters are assembled after detect_chapters.
C26_TitlesOpenChapters ==
    LET ps == AllParagraphs(pages)
    IN  /\ nDet = 0 => \A i \in 1..Len(ps) : Flagged(ps[i]) <=> LooksLikeTitle(ps[i].text)
        /\ (nDet >= 1 /\ nMd = 1) =>
              \A i \in 1..Len(ps) : LooksLikeTitle(ps[i].text) => OpensChapter(ps[i].text)

----------------------------------------------------------------------------
(* Claims about the desktop caller *)

\* C27: at most one conversion thread works on the EpubProcessor at a time,
\* and no conversion was started on a processor that held the package or
\* the statistics of an earlier request.
C27_NoSharedProcessor ==
    /\ Cardinality({t \in Threads : gui.pc[t] \in Working}) <= 1
    /\ \A t \in Threads : gui.found[t] = [book |-> 0, stats |-> 0]

----------------------------------------------------------------------------
(* Claims about the change flag of the converter *)

\* C28: when auto_convert_if_simplified or convert_html_content reports a
\* conversion, the text it returns differs from the text it was given.
C28_ChangedMeansDifferent ==
    (res.op \in {"auto_convert_if_simplified", "convert_html_content"} /\ res.changed)
        => res.text /= text

----------------------------------------------------------------------------
(* Claims about a modification that fails *)

\* C29: a modify that returns false leaves the package, its items and their
\* contents, and the conversion statistics as they were before the call.
C29_FailedModifyChangesNothing ==
    [][(CallOf("modify") /\ ~last'.ret) => (book' = book /\ stats' = stats)]_vars

----------------------------------------------------------------------------
(* Claims about the page headings of pdf_to_markdown *)

\* C30: in the Markdown file that pdf_to_markdown writes, the headings of the
\* pages carry the numbers that the pages with text have in the PDF.
C30_PageHeadingsCarryPageNumbers ==
    (pdfLast.op = "pdf_to_markdown" /\ pdfLast.ret) =>
        LET src == PdfNamed(pdfLast.file).pages
            numbers == SelectSeq([i \in 1..Len(src) |-> i],
                                 LAMBDA i : ~src[i].raises /\ Paragraphs(src[i].text) /= <<>>)
            headings == SelectSeq(pdfOut.blocks, LAMBDA b : b.level = 2)
        IN  headings = [k \in 1..Len(numbers) |-> Block(2, <<"page", numbers[k]>>)]

=============================================================================
